---- MODULE Spec2Model ----
(***************************************************************************)
(* Model of the stay-within date/window engine (TypeScript services):      *)
(*   DateParserService  (parseDate, isHeaderRow, formatDate)               *)
(*   CsvParserService   (parseTripsFromText)                               *)
(*   CalculatorService  (addMonths, calculateDaysInWindow, analyzeTrips,   *)
(*                       calculateStatus)                                  *)
(*                                                                         *)
(* A JavaScript Date is modelled by its time value, Date.getTime(), in     *)
(* units of one hour since 1970-01-01T00:00Z (every Date the engine builds *)
(* lies on a whole hour).  The host's time zone is part of the state: the  *)
(* calculator reads dates with the local getters (getFullYear, getMonth,   *)
(* getDate) and builds them with the local constructor, while the parser   *)
(* builds them with Date.UTC.                                              *)
(*                                                                         *)
(* A JavaScript string is modelled as a sequence of one-character strings. *)
(***************************************************************************)
EXTENDS Integers, Sequences, FiniteSets, TLC

VARIABLES tz, call, ret, tripInput

vars == <<tz, call, ret, tripInput>>

(***************************************************************************)
(* Bounds of the model.                                                    *)
(***************************************************************************)
MaxTrips == 2
MaxMonths == 13
MaxLines == 2
MaxRowCells == 2

(***************************************************************************)
(* Time values.                                                            *)
(***************************************************************************)
MsPerUnit == 60 * 60 * 1000

MS_PER_DAY == (24 * 60 * 60 * 1000) \div MsPerUnit

\* Offsets of local time from UTC, in hours, of the hosts considered
\* (fixed-offset zones: New York winter, UTC, Moscow).
TZOffsets == {0 - 5, 0, 3}

null == <<>>

Some(v) == <<v>>

\* ECMAScript day number of the civil date (y, m, d), m in 1..12
\* (days since 1970-01-01, proleptic Gregorian calendar).
DaysFromCivil(y, m, d) ==
    LET yy  == IF m <= 2 THEN y - 1 ELSE y
        era == yy \div 400
        yoe == yy - era * 400
        mp  == IF m > 2 THEN m - 3 ELSE m + 9
        doy == (153 * mp + 2) \div 5 + d - 1
        doe == yoe * 365 + yoe \div 4 - yoe \div 100 + doy
    IN  era * 146097 + doe - 719468

\* The civil date [year, month (1..12), day] of a day number.
CivilFromDays(z) ==
    LET zz  == z + 719468
        era == zz \div 146097
        doe == zz - era * 146097
        yoe == (doe - doe \div 1460 + doe \div 36524 - doe \div 146096) \div 365
        doy == doe - (365 * yoe + yoe \div 4 - yoe \div 100)
        mp  == (5 * doy + 2) \div 153
        d   == doy - (153 * mp + 2) \div 5 + 1
        m   == IF mp < 10 THEN mp + 3 ELSE mp - 9
    IN  [year |-> yoe + era * 400 + (IF m <= 2 THEN 1 ELSE 0), month |-> m, day |-> d]

\* ECMAScript MakeDay(year, month, date) with a 0-based month that may lie
\* outside 0..11 and a date that may lie outside the month (both overflow).
MakeDay(year, monthIndex, date) ==
    DaysFromCivil(year + monthIndex \div 12, (monthIndex % 12) + 1, 1) + date - 1

\* Both Date.UTC and the Date constructor read a year 0..99 as 1900 + year.
FullYear(year) == IF year >= 0 /\ year <= 99 THEN 1900 + year ELSE year

\* Date.UTC(year, monthIndex, day), as a time value.
DateUTC(year, monthIndex, day) == MakeDay(FullYear(year), monthIndex, day) * MS_PER_DAY

\* new Date(year, monthIndex, day): local midnight of the host.
NewDateLocal(year, monthIndex, day) ==
    MakeDay(FullYear(year), monthIndex, day) * MS_PER_DAY - tz

getUTCFullYear(t) == CivilFromDays(t \div MS_PER_DAY).year
getUTCMonth(t) == CivilFromDays(t \div MS_PER_DAY).month - 1
getUTCDate(t) == CivilFromDays(t \div MS_PER_DAY).day

getFullYear(t) == CivilFromDays((t + tz) \div MS_PER_DAY).year
getMonth(t) == CivilFromDays((t + tz) \div MS_PER_DAY).month - 1
getDate(t) == CivilFromDays((t + tz) \div MS_PER_DAY).day

(***************************************************************************)
(* CalculatorService                                                       *)
(***************************************************************************)

\* The two normalisation loops of addMonths: a state [year, month].
RECURSIVE NormalizeMonth(_, _)
NormalizeMonth(year, month) ==
    IF month > 12 THEN NormalizeMonth(year + 1, month - 12)
    ELSE IF month < 1 THEN NormalizeMonth(year - 1, month + 12)
    ELSE [year |-> year, month |-> month]

\* addMonths without Math.min(day, maxDay): a day past the end of the
\* target month overflows into the next month.
addMonthsOverflowing(date, months) ==
    LET ym == NormalizeMonth(getFullYear(date), getMonth(date) + 1 + months)
    IN  NewDateLocal(ym.year, ym.month - 1, getDate(date))

addMonths(date, months) ==
    LET year0 == getFullYear(date)
        month0 == getMonth(date) + 1 + months
        day == getDate(date)
        ym == NormalizeMonth(year0, month0)
        maxDay == getDate(NewDateLocal(ym.year, ym.month, 0))
        clampedDay == IF day < maxDay THEN day ELSE maxDay
    IN  NewDateLocal(ym.year, ym.month - 1, clampedDay)

\* daysInOverlap counting every day of a trip that meets the window.
daysInOverlapWholeTrip(trip, windowStart, windowEnd) ==
    IF trip.end < windowStart \/ trip.start > windowEnd THEN 0
    ELSE (trip.end - trip.start) \div MS_PER_DAY + 1

\* daysInOverlap without the "+ 1" of the inclusive count.
daysInOverlapExclusive(trip, windowStart, windowEnd) ==
    IF trip.end < windowStart \/ trip.start > windowEnd THEN 0
    ELSE LET overlapStart == IF trip.start > windowStart THEN trip.start ELSE windowStart
             overlapEnd == IF trip.end < windowEnd THEN trip.end ELSE windowEnd
         IN  (overlapEnd - overlapStart) \div MS_PER_DAY

\* One iteration of the loop of calculateDaysInWindow: what a trip adds.
daysInOverlap(trip, windowStart, windowEnd) ==
    IF trip.end < windowStart \/ trip.start > windowEnd THEN 0
    ELSE LET overlapStart == IF trip.start > windowStart THEN trip.start ELSE windowStart
             overlapEnd == IF trip.end < windowEnd THEN trip.end ELSE windowEnd
         IN  (overlapEnd - overlapStart) \div MS_PER_DAY + 1

RECURSIVE calculateDaysInWindowFrom(_, _, _, _, _)
calculateDaysInWindowFrom(trips, i, totalDays, windowStart, windowEnd) ==
    IF i > Len(trips) THEN totalDays
    ELSE calculateDaysInWindowFrom(trips, i + 1,
             totalDays + daysInOverlap(trips[i], windowStart, windowEnd),
             windowStart, windowEnd)

calculateDaysInWindow(trips, windowStart, windowEnd) ==
    calculateDaysInWindowFrom(trips, 1, 0, windowStart, windowEnd)

\* The body of the map callback of analyzeTrips: the row of one trip.
analysisRow(trips, trip, config) ==
    LET windowStart == addMonths(trip.end, 0 - config.windowMonths)
        daysInWindow == calculateDaysInWindow(trips, windowStart, trip.end)
        daysRemaining == config.absenceLimit - daysInWindow
    IN  [trip |-> trip, daysInWindow |-> daysInWindow, daysRemaining |-> daysRemaining]

\* analyzeTrips counting, for each trip, only the trips up to it.
analyzeTripsUpToTrip(trips, config) ==
    [i \in 1..Len(trips) |-> analysisRow(SubSeq(trips, 1, i), trips[i], config)]

analyzeTrips(trips, config) ==
    [i \in 1..Len(trips) |-> analysisRow(trips, trips[i], config)]

\* Math.min(30, Math.ceil(absenceLimit * 0.15)).  The double product
\* absenceLimit * 0.15 rounds up to the same integer as the exact 15/100 of
\* the limit for every limit below 400, past which the minimum is 30.
warningThreshold(absenceLimit) ==
    LET ceil15 == (absenceLimit * 15 + 99) \div 100
    IN  IF 30 < ceil15 THEN 30 ELSE ceil15

\* statusLevel with "<=" for the caution threshold.
statusLevelInclusive(daysRemaining, absenceLimit) ==
    IF daysRemaining < 0 THEN "exceeded"
    ELSE IF daysRemaining <= warningThreshold(absenceLimit) THEN "caution"
    ELSE "ok"

statusLevel(daysRemaining, absenceLimit) ==
    IF daysRemaining < 0 THEN "exceeded"
    ELSE IF daysRemaining < warningThreshold(absenceLimit) THEN "caution"
    ELSE "ok"

\* What a call ends with when it throws instead of returning.
Thrown(name, message) == [exception |-> name, message |-> message]

\* calculateStatus with the window ending on the end of the last trip in
\* place of the target date.
calculateStatusWindowAtLastTrip(trips, config, now) ==
    LET targetDate == IF config.customDate # null THEN config.customDate[1]
                      ELSE NewDateLocal(getFullYear(now), getMonth(now), getDate(now))
    IN  IF Len(trips) = 0
        THEN Thrown("TypeError", "Cannot read properties of undefined (reading 'end')")
        ELSE LET lastTrip == trips[Len(trips)]
                 windowStart == addMonths(lastTrip.end, 0 - config.windowMonths)
                 totalDaysOutside == calculateDaysInWindow(trips, windowStart, lastTrip.end)
                 daysRemaining == config.absenceLimit - totalDaysOutside
             IN  [targetDate |-> targetDate,
                  isCustomDate |-> config.customDate # null,
                  lastTripEnd |-> lastTrip.end,
                  daysSinceLastTrip |-> (targetDate - lastTrip.end) \div MS_PER_DAY,
                  windowStart |-> windowStart,
                  windowEnd |-> lastTrip.end,
                  totalDaysOutside |-> totalDaysOutside,
                  daysRemaining |-> daysRemaining,
                  status |-> statusLevel(daysRemaining, config.absenceLimit)]

\* calculateStatus counting the days since the last trip inclusively.
calculateStatusInclusiveDaysSince(trips, config, now) ==
    LET targetDate == IF config.customDate # null THEN config.customDate[1]
                      ELSE NewDateLocal(getFullYear(now), getMonth(now), getDate(now))
        windowStart == addMonths(targetDate, 0 - config.windowMonths)
    IN  IF Len(trips) = 0
        THEN Thrown("TypeError", "Cannot read properties of undefined (reading 'end')")
        ELSE LET lastTrip == trips[Len(trips)]
                 totalDaysOutside == calculateDaysInWindow(trips, windowStart, targetDate)
                 daysRemaining == config.absenceLimit - totalDaysOutside
             IN  [targetDate |-> targetDate,
                  isCustomDate |-> config.customDate # null,
                  lastTripEnd |-> lastTrip.end,
                  daysSinceLastTrip |-> (targetDate - lastTrip.end) \div MS_PER_DAY + 1,
                  windowStart |-> windowStart,
                  windowEnd |-> targetDate,
                  totalDaysOutside |-> totalDaysOutside,
                  daysRemaining |-> daysRemaining,
                  status |-> statusLevel(daysRemaining, config.absenceLimit)]

\* config.customDate is null when the config carries no evaluation date;
\* now is the reading of the host clock, new Date().
calculateStatus(trips, config, now) ==
    LET targetDate == IF config.customDate # null THEN config.customDate[1]
                      ELSE NewDateLocal(getFullYear(now), getMonth(now), getDate(now))
        windowStart == addMonths(targetDate, 0 - config.windowMonths)
    IN  IF Len(trips) = 0
        THEN \* trips[-1] is undefined: reading lastTrip.end throws
             Thrown("TypeError", "Cannot read properties of undefined (reading 'end')")
        ELSE LET lastTrip == trips[Len(trips)]
                 daysSinceLastTrip == (targetDate - lastTrip.end) \div MS_PER_DAY
                 totalDaysOutside == calculateDaysInWindow(trips, windowStart, targetDate)
                 daysRemaining == config.absenceLimit - totalDaysOutside
             IN  [targetDate |-> targetDate,
                  isCustomDate |-> config.customDate # null,
                  lastTripEnd |-> lastTrip.end,
                  daysSinceLastTrip |-> daysSinceLastTrip,
                  windowStart |-> windowStart,
                  windowEnd |-> targetDate,
                  totalDaysOutside |-> totalDaysOutside,
                  daysRemaining |-> daysRemaining,
                  status |-> statusLevel(daysRemaining, config.absenceLimit)]

(***************************************************************************)
(* Strings.                                                                *)
(***************************************************************************)
Ch(s, i) == SubSeq(s, i, i)

Digits == {"0", "1", "2", "3", "4", "5", "6", "7", "8", "9"}

UpperCase == "ABCDEFGHIJKLMNOPQRSTUVWXYZ"

LowerCase == "abcdefghijklmnopqrstuvwxyz"

IsDigit(c) == c \in Digits

IsLetter(c) == \E i \in 1..26 : c = Ch(UpperCase, i) \/ c = Ch(LowerCase, i)

\* White space of String.prototype.trim and of \s.
IsSpace(c) == c \in {" ", "\t", "\n", "\r", "\f"}

AllDigits(s) == \A i \in 1..Len(s) : IsDigit(Ch(s, i))

AllLetters(s) == \A i \in 1..Len(s) : IsLetter(Ch(s, i))

AllSpaces(s) == \A i \in 1..Len(s) : IsSpace(Ch(s, i))

RECURSIVE trimStart(_)
trimStart(s) ==
    IF Len(s) > 0 /\ IsSpace(Ch(s, 1)) THEN trimStart(SubSeq(s, 2, Len(s))) ELSE s

RECURSIVE trimEnd(_)
trimEnd(s) ==
    IF Len(s) > 0 /\ IsSpace(Ch(s, Len(s))) THEN trimEnd(SubSeq(s, 1, Len(s) - 1)) ELSE s

trim(s) == trimEnd(trimStart(s))

toLowerCaseChar(c) ==
    IF \E i \in 1..26 : c = Ch(UpperCase, i)
    THEN Ch(LowerCase, CHOOSE i \in 1..26 : c = Ch(UpperCase, i))
    ELSE c

RECURSIVE toLowerCase(_)
toLowerCase(s) ==
    IF Len(s) = 0 THEN s
    ELSE toLowerCaseChar(Ch(s, 1)) \o toLowerCase(SubSeq(s, 2, Len(s)))

includes(s, keyword) ==
    \E i \in 1..(Len(s) - Len(keyword) + 1) : SubSeq(s, i, i + Len(keyword) - 1) = keyword

DigitValue(c) == CHOOSE v \in 0..9 : Ch("0123456789", v + 1) = c

\* The unary plus on a string of decimal digits.
RECURSIVE ToNumber(_)
ToNumber(s) ==
    IF Len(s) = 0 THEN 0
    ELSE ToNumber(SubSeq(s, 1, Len(s) - 1)) * 10 + DigitValue(Ch(s, Len(s)))

\* String.prototype.split on single-character separators.
\* The pieces of s from position i on; the current piece began at start.
RECURSIVE SplitFrom(_, _, _, _)
SplitFrom(s, start, i, separators) ==
    LET found == {j \in i..Len(s) : Ch(s, j) \in separators}
    IN  IF found = {} THEN <<SubSeq(s, start, Len(s))>>
        ELSE LET next == CHOOSE j \in found : \A k \in found : j <= k
             IN  <<SubSeq(s, start, next - 1)>>
                 \o SplitFrom(s, next + 1, next + 1, separators)

\* text.split(/\r?\n/): the pieces between line feeds, and each piece that a
\* line feed ends loses the carriage return before that line feed.
SplitLines(text) ==
    LET pieces == SplitFrom(text, 1, 1, {"\n"})
    IN  [k \in 1..Len(pieces) |->
            LET piece == pieces[k]
            IN  IF k < Len(pieces) /\ Len(piece) > 0 /\ Ch(piece, Len(piece)) = "\r"
                THEN SubSeq(piece, 1, Len(piece) - 1)
                ELSE piece]

(***************************************************************************)
(* DateParserService                                                       *)
(***************************************************************************)
MONTHS_SHORT ==
    [jan |-> 1, feb |-> 2, mar |-> 3, apr |-> 4, may |-> 5, jun |-> 6,
     jul |-> 7, aug |-> 8, sep |-> 9, oct |-> 10, nov |-> 11, dec |-> 12]

MONTHS_LONG ==
    [january |-> 1, february |-> 2, march |-> 3, april |-> 4, may |-> 5, june |-> 6,
     july |-> 7, august |-> 8, september |-> 9, october |-> 10, november |-> 11,
     december |-> 12]

\* The ten formats in priority order: the shape of the regular expression
\* (the widths of its three groups), its separator, and the order in which
\* extract reads the groups.
DATE_FORMATS ==
    <<[regex |-> "2-2-4", sep |-> ".", extract |-> "dmy"],
      [regex |-> "2-2-4", sep |-> "/", extract |-> "dmy"],
      [regex |-> "2-2-4", sep |-> "-", extract |-> "dmy"],
      [regex |-> "4-2-2", sep |-> "-", extract |-> "ymd"],
      [regex |-> "4-2-2", sep |-> "/", extract |-> "ymd"],
      [regex |-> "4-2-2", sep |-> ".", extract |-> "ymd"],
      [regex |-> "2-2-4", sep |-> "/", extract |-> "mdy"],
      [regex |-> "2-2-4", sep |-> "-", extract |-> "mdy"],
      [regex |-> "2-Mon-4", sep |-> " ", extract |-> "short"],
      [regex |-> "2-Month-4", sep |-> " ", extract |-> "long"]>>

\* MatchNumeric without the "$" anchor: text may follow the date.
MatchNumericUnanchored(s, a, b, c, sep) ==
    IF /\ Len(s) >= a + b + c + 2
       /\ AllDigits(SubSeq(s, 1, a))
       /\ Ch(s, a + 1) = sep
       /\ AllDigits(SubSeq(s, a + 2, a + b + 1))
       /\ Ch(s, a + b + 2) = sep
       /\ AllDigits(SubSeq(s, a + b + 3, a + b + c + 2))
    THEN Some(<<SubSeq(s, 1, a), SubSeq(s, a + 2, a + b + 1),
                SubSeq(s, a + b + 3, a + b + c + 2)>>)
    ELSE null

\* ^(\d{a})sep(\d{b})sep(\d{c})$ : the three groups, or null.
MatchNumeric(s, a, b, c, sep) ==
    IF /\ Len(s) = a + b + c + 2
       /\ AllDigits(SubSeq(s, 1, a))
       /\ Ch(s, a + 1) = sep
       /\ AllDigits(SubSeq(s, a + 2, a + b + 1))
       /\ Ch(s, a + b + 2) = sep
       /\ AllDigits(SubSeq(s, a + b + 3, a + b + c + 2))
    THEN Some(<<SubSeq(s, 1, a), SubSeq(s, a + 2, a + b + 1), SubSeq(s, a + b + 3, Len(s))>>)
    ELSE null

\* ^(\d{2})\s+([A-Za-z]{lo,hi})\s+(\d{4})$ : the three groups, or null.
\* The word runs from position i to position j.
MatchWord(s, lo, hi) ==
    LET n == Len(s)
        spans == {ij \in (4..(n - 5)) \X (4..(n - 5)) :
                    /\ ij[1] <= ij[2]
                    /\ ij[2] - ij[1] + 1 >= lo
                    /\ ij[2] - ij[1] + 1 <= hi
                    /\ AllSpaces(SubSeq(s, 3, ij[1] - 1))
                    /\ AllLetters(SubSeq(s, ij[1], ij[2]))
                    /\ AllSpaces(SubSeq(s, ij[2] + 1, n - 4))}
    IN  IF n < 9 \/ ~AllDigits(SubSeq(s, 1, 2)) \/ ~AllDigits(SubSeq(s, n - 3, n))
           \/ spans = {}
        THEN null
        ELSE LET ij == CHOOSE x \in spans : TRUE
             IN  Some(<<SubSeq(s, 1, 2), SubSeq(s, ij[1], ij[2]), SubSeq(s, n - 3, n)>>)

\* trimmed.match(fmt.regex)
Match(fmt, s) ==
    CASE fmt.regex = "2-2-4" -> MatchNumeric(s, 2, 2, 4, fmt.sep)
      [] fmt.regex = "4-2-2" -> MatchNumeric(s, 4, 2, 2, fmt.sep)
      [] fmt.regex = "2-Mon-4" -> MatchWord(s, 3, 3)
      [] fmt.regex = "2-Month-4" -> MatchWord(s, 1, Len(s))

\* MONTHS[name]: the month number; 0 for a name that is no key (undefined,
\* which extract turns into null).
LookupMonth(months, name) == IF name \in DOMAIN months THEN months[name] ELSE 0

\* fmt.extract(match): the parts [year, month, day], or null.  The word
\* "constructor" finds Object.prototype.constructor in MONTHS_LONG, which is
\* truthy: extract then returns parts whose month is no number, and
\* isValidDate is false on them; the parts carry month 0 here.
Extract(fmt, m) ==
    CASE fmt.extract = "dmy" ->
            Some([day |-> ToNumber(m[1]), month |-> ToNumber(m[2]), year |-> ToNumber(m[3])])
      [] fmt.extract = "ymd" ->
            Some([year |-> ToNumber(m[1]), month |-> ToNumber(m[2]), day |-> ToNumber(m[3])])
      [] fmt.extract = "mdy" ->
            Some([month |-> ToNumber(m[1]), day |-> ToNumber(m[2]), year |-> ToNumber(m[3])])
      [] fmt.extract = "short" ->
            LET month == LookupMonth(MONTHS_SHORT, toLowerCase(m[2]))
            IN  IF month # 0
                THEN Some([day |-> ToNumber(m[1]), month |-> month, year |-> ToNumber(m[3])])
                ELSE null
      [] fmt.extract = "long" ->
            LET month == LookupMonth(MONTHS_LONG, toLowerCase(m[2]))
            IN  IF month # 0 \/ toLowerCase(m[2]) = "constructor"
                THEN Some([day |-> ToNumber(m[1]), month |-> month, year |-> ToNumber(m[3])])
                ELSE null

HEADER_KEYWORDS == <<"start", "end", "begin", "from", "to", "departure", "arrival", "date">>

\* isValidDate without the round trip through Date.UTC.
isValidDateRangeOnly(year, month, day) ==
    IF month < 1 \/ month > 12 \/ day < 1 THEN FALSE ELSE day <= 31

isValidDate(year, month, day) ==
    IF month < 1 \/ month > 12 \/ day < 1 THEN FALSE
    ELSE LET d == DateUTC(year, month - 1, day)
         IN  getUTCFullYear(d) = year /\ getUTCMonth(d) = month - 1 /\ getUTCDate(d) = day

\* The loop of parseDate over DATE_FORMATS, from format k on.
RECURSIVE parseDateFrom(_, _)
parseDateFrom(trimmed, k) ==
    IF k > Len(DATE_FORMATS) THEN null
    ELSE LET fmt == DATE_FORMATS[k]
             match == Match(fmt, trimmed)
         IN  IF match = null THEN parseDateFrom(trimmed, k + 1)
             ELSE LET parts == Extract(fmt, match[1])
                  IN  IF parts = null THEN parseDateFrom(trimmed, k + 1)
                      ELSE IF ~isValidDate(parts[1].year, parts[1].month, parts[1].day)
                           THEN parseDateFrom(trimmed, k + 1)
                           ELSE Some(DateUTC(parts[1].year, parts[1].month - 1, parts[1].day))

\* Returns Some(time value) or null.
parseDate(dateStr) ==
    LET trimmed == trim(dateStr)
    IN  IF Len(trimmed) = 0 THEN null ELSE parseDateFrom(trimmed, 1)

\* isHeaderRow taking a cell for a keyword only when it is the keyword.
isHeaderRowExactKeyword(row) ==
    IF Len(row) < 2 THEN FALSE
    ELSE LET firstCell == toLowerCase(trim(row[1]))
             secondCell == toLowerCase(trim(row[2]))
         IN  IF \E k \in 1..Len(HEADER_KEYWORDS) :
                    firstCell = HEADER_KEYWORDS[k] \/ secondCell = HEADER_KEYWORDS[k]
             THEN TRUE
             ELSE parseDate(row[1]) = null \/ parseDate(row[2]) = null

isHeaderRow(row) ==
    IF Len(row) < 2 THEN FALSE
    ELSE LET firstCell == toLowerCase(trim(row[1]))
             secondCell == toLowerCase(trim(row[2]))
         IN  IF \E k \in 1..Len(HEADER_KEYWORDS) :
                    includes(firstCell, HEADER_KEYWORDS[k])
                    \/ includes(secondCell, HEADER_KEYWORDS[k])
             THEN TRUE
             ELSE LET date1 == parseDate(row[1])
                      date2 == parseDate(row[2])
                  IN  date1 = null \/ date2 = null

(***************************************************************************)
(* CsvParserService                                                        *)
(***************************************************************************)

\* InsertByEnd placing a trip before the trips that end on the same day.
RECURSIVE InsertByEndBeforeEqual(_, _)
InsertByEndBeforeEqual(sorted, trip) ==
    IF Len(sorted) = 0 THEN <<trip>>
    ELSE IF sorted[Len(sorted)].end < trip.end THEN Append(sorted, trip)
    ELSE Append(InsertByEndBeforeEqual(SubSeq(sorted, 1, Len(sorted) - 1), trip),
                sorted[Len(sorted)])

\* trips.sort((a, b) => a.end - b.end) is stable: a trip is placed after
\* every trip of the sorted list whose end is not later.
RECURSIVE InsertByEnd(_, _)
InsertByEnd(sorted, trip) ==
    IF Len(sorted) = 0 THEN <<trip>>
    ELSE IF sorted[Len(sorted)].end <= trip.end THEN Append(sorted, trip)
    ELSE Append(InsertByEnd(SubSeq(sorted, 1, Len(sorted) - 1), trip), sorted[Len(sorted)])

RECURSIVE sortByEnd(_)
sortByEnd(trips) ==
    IF Len(trips) = 0 THEN <<>>
    ELSE InsertByEnd(sortByEnd(SubSeq(trips, 1, Len(trips) - 1)), trips[Len(trips)])

\* A trip as parseTripsFromText builds it from its two dates.
MkTrip(startDate, endDate) ==
    [start |-> startDate, end |-> endDate,
     days |-> (endDate - startDate) \div MS_PER_DAY + 1]

\* CellsOf splitting on the comma only.
CellsOfCommaOnly(line) ==
    LET raw == SplitFrom(line, 1, 1, {","})
    IN  [k \in 1..Len(raw) |-> trim(raw[k])]

\* line.split(/[,\t]/).map(c => c.trim())
CellsOf(line) ==
    LET raw == SplitFrom(line, 1, 1, {",", "\t"})
    IN  [k \in 1..Len(raw) |-> trim(raw[k])]

\* parseLinesFrom with a firstRow flag that is never cleared: every line
\* of at least two cells is checked for a header.
RECURSIVE parseLinesFromCheckingEveryLine(_, _, _, _)
parseLinesFromCheckingEveryLine(lines, k, trips, firstRow) ==
    IF k > Len(lines) THEN trips
    ELSE LET cells == CellsOf(lines[k])
         IN  IF Len(cells) < 2
             THEN parseLinesFromCheckingEveryLine(lines, k + 1, trips, firstRow)
             ELSE IF firstRow /\ isHeaderRow(cells)
                  THEN parseLinesFromCheckingEveryLine(lines, k + 1, trips, firstRow)
                  ELSE LET startDate == parseDate(cells[1])
                           endDate == parseDate(cells[2])
                       IN  IF startDate = null \/ endDate = null
                           THEN parseLinesFromCheckingEveryLine(lines, k + 1, trips, firstRow)
                           ELSE parseLinesFromCheckingEveryLine(lines, k + 1,
                                    Append(trips, MkTrip(startDate[1], endDate[1])),
                                    firstRow)

\* The loop of parseTripsFromText over the non-blank lines, from line k on,
\* with the trips pushed so far and the firstRow flag.
RECURSIVE parseLinesFrom(_, _, _, _)
parseLinesFrom(lines, k, trips, firstRow) ==
    IF k > Len(lines) THEN trips
    ELSE LET cells == CellsOf(lines[k])
         IN  IF Len(cells) < 2 THEN parseLinesFrom(lines, k + 1, trips, firstRow)
             ELSE IF firstRow /\ isHeaderRow(cells)
                  THEN parseLinesFrom(lines, k + 1, trips, FALSE)
                  ELSE LET startDate == parseDate(cells[1])
                           endDate == parseDate(cells[2])
                       IN  IF startDate = null \/ endDate = null
                           THEN parseLinesFrom(lines, k + 1, trips, FALSE)
                           ELSE parseLinesFrom(lines, k + 1,
                                    Append(trips, MkTrip(startDate[1], endDate[1])), FALSE)

\* The positions, among the non-blank lines from line k on, of the lines
\* that the loop passes to isHeaderRow.
RECURSIVE headerCheckedLines(_, _, _)
headerCheckedLines(lines, k, firstRow) ==
    IF k > Len(lines) THEN <<>>
    ELSE IF Len(CellsOf(lines[k])) < 2 THEN headerCheckedLines(lines, k + 1, firstRow)
    ELSE IF firstRow THEN <<k>> \o headerCheckedLines(lines, k + 1, FALSE)
    ELSE headerCheckedLines(lines, k + 1, FALSE)

parseTripsFromText(text) ==
    LET lines == SelectSeq(SplitLines(text), LAMBDA line : Len(trim(line)) > 0)
    IN  IF Len(lines) = 0 THEN <<>>
        ELSE sortByEnd(parseLinesFrom(lines, 1, <<>>, TRUE))

\* String(n) of a natural number.
RECURSIVE NumberToString(_)
NumberToString(n) ==
    IF n < 10 THEN Ch("0123456789", n + 1)
    ELSE NumberToString(n \div 10) \o Ch("0123456789", (n % 10) + 1)

\* text.padStart(length, '0')
RECURSIVE padStart(_, _)
padStart(text, length) ==
    IF Len(text) >= length THEN text ELSE padStart("0" \o text, length)

\* formatDate without padStart.
formatDateUnpadded(date) ==
    NumberToString(getUTCDate(date)) \o "." \o NumberToString(getUTCMonth(date) + 1)
    \o "." \o NumberToString(getUTCFullYear(date))

\* formatDate of DateParserService, and fmtDate of the end-to-end tests.
formatDate(date) ==
    LET day == padStart(NumberToString(getUTCDate(date)), 2)
        month == padStart(NumberToString(getUTCMonth(date) + 1), 2)
        year == getUTCFullYear(date)
    IN  day \o "." \o month \o "." \o NumberToString(year)

(***************************************************************************)
(* The Go command-line program (cli/main.go).  Its times are UTC: the      *)
(* dates come from time.Parse, which gives UTC.                            *)
(***************************************************************************)

\* time.Date(year, month, day, 0, 0, 0, 0, time.UTC), which normalises a
\* month or a day out of range.
GoDate(year, month, day) == MakeDay(year, month - 1, day) * MS_PER_DAY

\* t.Date()
GoCivil(t) == CivilFromDays(t \div MS_PER_DAY)

\* daysIn(month, year) of package time.
GoDaysIn(month, year) ==
    IF month = 2
    THEN (IF year % 4 = 0 /\ (year % 100 # 0 \/ year % 400 = 0) THEN 29 ELSE 28)
    ELSE IF month \in {4, 6, 9, 11} THEN 30 ELSE 31

\* The layouts of dateFormats: the order of the fields, the separator, and
\* for the layouts with a month name whether the name is the long one.
GoDateFormats ==
    <<[fields |-> "dmy", sep |-> "."], [fields |-> "dmy", sep |-> "/"],
      [fields |-> "dmy", sep |-> "-"], [fields |-> "ymd", sep |-> "-"],
      [fields |-> "ymd", sep |-> "/"], [fields |-> "ymd", sep |-> "."],
      [fields |-> "mdy", sep |-> "/"], [fields |-> "mdy", sep |-> "-"],
      [fields |-> "Jan", sep |-> " "], [fields |-> "January", sep |-> " "]>>

\* skip(value, " "): a space of the layout stands for a run of at least one
\* space of the value.  The rest of the value, or null.
RECURSIVE GoCutSpace(_)
GoCutSpace(value) ==
    IF Len(value) > 0 /\ Ch(value, 1) = " " THEN GoCutSpace(SubSeq(value, 2, Len(value)))
    ELSE value

GoSkipSpace(value) ==
    IF Len(value) > 0 /\ Ch(value, 1) # " " THEN null ELSE Some(GoCutSpace(value))

\* lookup(shortMonthNames, value) and lookup(longMonthNames, value): the
\* month whose name the value begins with, in any case; 0 if none.
GoLookupMonth(names, value) ==
    LET found == {name \in DOMAIN names :
                    /\ Len(value) >= Len(name)
                    /\ toLowerCase(SubSeq(value, 1, Len(name))) = name}
    IN  IF found = {} THEN [month |-> 0, rest |-> value]
        ELSE LET name == CHOOSE name \in found : TRUE
             IN  [month |-> names[name], rest |-> SubSeq(value, Len(name) + 1, Len(value))]

\* time.Parse(layout, value) for a layout with a month name: the fields
\* [year, month, day], or null.
GoParseWord(value, names) ==
    LET AfterMonth(month, afterMonth) ==
            IF month = 0 \/ afterMonth = null THEN null
            ELSE IF Len(afterMonth[1]) # 4 \/ ~AllDigits(afterMonth[1]) THEN null
            ELSE Some([year |-> ToNumber(afterMonth[1]), month |-> month,
                       day |-> ToNumber(SubSeq(value, 1, 2))])
        Month(m) == AfterMonth(m.month, GoSkipSpace(m.rest))
        AfterDay(afterDay) ==
            IF afterDay = null THEN null ELSE Month(GoLookupMonth(names, afterDay[1]))
    IN  IF Len(value) < 2 \/ ~AllDigits(SubSeq(value, 1, 2)) THEN null
        ELSE AfterDay(GoSkipSpace(SubSeq(value, 3, Len(value))))

\* time.Parse(layout, value) for a numeric layout: the fields, or null.
GoParseNumeric(value, fmt) ==
    LET Fields(m) ==
            IF m = null THEN null
            ELSE Some(IF fmt.fields = "dmy"
                      THEN [year |-> ToNumber(m[1][3]), month |-> ToNumber(m[1][2]),
                            day |-> ToNumber(m[1][1])]
                      ELSE IF fmt.fields = "ymd"
                      THEN [year |-> ToNumber(m[1][1]), month |-> ToNumber(m[1][2]),
                            day |-> ToNumber(m[1][3])]
                      ELSE [year |-> ToNumber(m[1][3]), month |-> ToNumber(m[1][1]),
                            day |-> ToNumber(m[1][2])])
    IN  Fields(IF fmt.fields = "ymd" THEN MatchNumeric(value, 4, 2, 2, fmt.sep)
               ELSE MatchNumeric(value, 2, 2, 4, fmt.sep))

\* time.Parse(format, dateStr): the time, or null for an error (a month
\* or a day out of range, a text of another shape, extra text).
GoTimeParse(fmt, value) ==
    LET InRange(parts) ==
            IF parts = null THEN null
            ELSE IF parts[1].month < 1 \/ parts[1].month > 12 THEN null
            ELSE IF parts[1].day < 1
                    \/ parts[1].day > GoDaysIn(parts[1].month, parts[1].year)
                 THEN null
            ELSE Some(GoDate(parts[1].year, parts[1].month, parts[1].day))
    IN  InRange(IF fmt.fields = "Jan" THEN GoParseWord(value, MONTHS_SHORT)
                ELSE IF fmt.fields = "January" THEN GoParseWord(value, MONTHS_LONG)
                ELSE GoParseNumeric(value, fmt))

RECURSIVE GoParseDateFrom(_, _)
GoParseDateFrom(dateStr, k) ==
    LET OrNext(t) == IF t # null THEN t ELSE GoParseDateFrom(dateStr, k + 1)
    IN  IF k > Len(GoDateFormats) THEN null
        ELSE OrNext(GoTimeParse(GoDateFormats[k], dateStr))

\* parseDate of the Go program: the time, or null for the error.
GoParseDate(dateStr) == GoParseDateFrom(trim(dateStr), 1)

GoIsHeaderRow(row) ==
    IF Len(row) < 2 THEN FALSE
    ELSE LET firstCell == toLowerCase(trim(row[1]))
             secondCell == toLowerCase(trim(row[2]))
         IN  IF \E k \in 1..Len(HEADER_KEYWORDS) :
                    includes(firstCell, HEADER_KEYWORDS[k])
                    \/ includes(secondCell, HEADER_KEYWORDS[k])
             THEN TRUE
             ELSE GoParseDate(row[1]) = null \/ GoParseDate(row[2]) = null

\* The records csv.NewReader reads from a text without quotes: the lines
\* that are not empty, each split on the comma and not trimmed.
GoCsvRecords(text) ==
    LET lines == SelectSeq(SplitLines(text), LAMBDA line : Len(line) > 0)
    IN  [k \in 1..Len(lines) |-> SplitFrom(lines[k], 1, 1, {","})]

\* reader.Read() returns ErrFieldCount for a record that has not as many
\* fields as the first record.
GoCsvFieldCountError(records) ==
    \E k \in 1..Len(records) : Len(records[k]) # Len(records[1])

RECURSIVE GoReadRecordsFrom(_, _, _, _)
GoReadRecordsFrom(records, k, trips, firstRow) ==
    LET Push(startDate, endDate) ==
            IF startDate = null \/ endDate = null
            THEN GoReadRecordsFrom(records, k + 1, trips, FALSE)
            ELSE GoReadRecordsFrom(records, k + 1,
                     Append(trips, MkTrip(startDate[1], endDate[1])), FALSE)
        Read(row) ==
            IF Len(row) < 2 THEN GoReadRecordsFrom(records, k + 1, trips, firstRow)
            ELSE IF firstRow /\ GoIsHeaderRow(row)
                 THEN GoReadRecordsFrom(records, k + 1, trips, FALSE)
                 ELSE Push(GoParseDate(row[1]), GoParseDate(row[2]))
    IN  IF k > Len(records) THEN trips ELSE Read(records[k])

\* readTripsFromCSV: the trips, or null for the error of the reader.
GoReadTripsFromCSV(text) ==
    LET Read(records) ==
            IF GoCsvFieldCountError(records) THEN null
            ELSE Some(GoReadRecordsFrom(records, 1, <<>>, TRUE))
    IN  Read(GoCsvRecords(text))

GoAddMonths(t, months) ==
    LET Clamped(ym, day, maxDay) ==
            GoDate(ym.year, ym.month, IF day > maxDay THEN maxDay ELSE day)
        InMonth(ym, day) ==
            Clamped(ym, day, GoCivil(GoDate(ym.year, ym.month + 1, 0)).day)
        From(c) == InMonth(NormalizeMonth(c.year, c.month + months), c.day)
    IN  From(GoCivil(t))

\* int(x.Hours() / 24): the quotient truncated towards zero.
GoWholeDays(hours) ==
    IF hours >= 0 THEN hours \div MS_PER_DAY ELSE 0 - ((0 - hours) \div MS_PER_DAY)

RECURSIVE GoCalculateDaysInWindowFrom(_, _, _, _, _)
GoCalculateDaysInWindowFrom(trips, i, totalDays, windowStart, windowEnd) ==
    IF i > Len(trips) THEN totalDays
    ELSE LET trip == trips[i]
             overlapStart == IF trip.start > windowStart THEN trip.start ELSE windowStart
             overlapEnd == IF trip.end < windowEnd THEN trip.end ELSE windowEnd
         IN  IF trip.end < windowStart \/ trip.start > windowEnd
             THEN GoCalculateDaysInWindowFrom(trips, i + 1, totalDays, windowStart, windowEnd)
             ELSE GoCalculateDaysInWindowFrom(trips, i + 1,
                      totalDays + GoWholeDays(overlapEnd - overlapStart) + 1,
                      windowStart, windowEnd)

GoCalculateDaysInWindow(trips, windowStart, windowEnd) ==
    GoCalculateDaysInWindowFrom(trips, 1, 0, windowStart, windowEnd)

\* t.Format("02.01.2006")
GoFormat(t) ==
    LET Render(c) ==
            padStart(NumberToString(c.day), 2) \o "." \o padStart(NumberToString(c.month), 2)
            \o "." \o padStart(NumberToString(c.year), 4)
    IN  Render(GoCivil(t))

\* What a run that ends without output is: the Go program exits with an
\* error, the TypeScript run throws.
NoOutput == [failed |-> TRUE]

\* main with --json: the output of outputJSON, or no output.  sort.Slice
\* sorts a slice of at most 12 elements by insertion, which keeps the
\* order of equal elements.
GoJsonOutput(text, dateStr, windowMonths, absenceLimit) ==
    LET Row(trip, totalDaysInWindow) ==
            [start |-> GoFormat(trip.start),
             end |-> GoFormat(trip.end),
             days |-> trip.days,
             daysInWindow |-> totalDaysInWindow,
             daysRemaining |-> absenceLimit - totalDaysInWindow]
        Status(targetDate, lastTrip, windowStart, totalDaysOutside, remainingDays) ==
            [targetDate |-> GoFormat(targetDate),
             lastTripEnd |-> GoFormat(lastTrip.end),
             daysSinceLastTrip |-> GoWholeDays(targetDate - lastTrip.end),
             windowStart |-> GoFormat(windowStart),
             windowEnd |-> GoFormat(targetDate),
             totalDaysOutside |-> totalDaysOutside,
             daysRemaining |-> remainingDays,
             status |-> IF remainingDays < 0 THEN "exceeded"
                        ELSE IF remainingDays < warningThreshold(absenceLimit)
                        THEN "caution" ELSE "ok"]
        InWindow(trips, targetDate, windowStart, totalDaysOutside) ==
            [failed |-> FALSE,
             trips |-> [i \in 1..Len(trips) |->
                 Row(trips[i],
                     GoCalculateDaysInWindow(trips,
                         GoAddMonths(trips[i].end, 0 - windowMonths), trips[i].end))],
             status |-> Status(targetDate, trips[Len(trips)], windowStart,
                               totalDaysOutside, absenceLimit - totalDaysOutside)]
        Sorted(trips, targetDate, windowStart) ==
            InWindow(trips, targetDate, windowStart,
                     GoCalculateDaysInWindow(trips, windowStart, targetDate))
        Run(read, targetDate) ==
            IF read = null THEN NoOutput
            ELSE IF Len(read[1]) = 0 THEN NoOutput
            ELSE IF targetDate = null THEN NoOutput
            ELSE Sorted(sortByEnd(read[1]), targetDate[1],
                        GoAddMonths(targetDate[1], 0 - windowMonths))
    IN  Run(GoReadTripsFromCSV(text), GoParseDate(dateStr))

\* The fields of one row of analysisRows that the end-to-end tests
\* compare, the dates rendered by fmtDate.
TsTripFields(tsRow) ==
    [start |-> formatDate(tsRow.trip.start),
     end |-> formatDate(tsRow.trip.end),
     days |-> tsRow.trip.days,
     daysInWindow |-> tsRow.daysInWindow,
     daysRemaining |-> tsRow.daysRemaining]

\* The fields of the status that the end-to-end tests compare.
TsStatusFields(tsStatus) ==
    [targetDate |-> formatDate(tsStatus.targetDate),
     lastTripEnd |-> formatDate(tsStatus.lastTripEnd),
     daysSinceLastTrip |-> tsStatus.daysSinceLastTrip,
     windowStart |-> formatDate(tsStatus.windowStart),
     windowEnd |-> formatDate(tsStatus.windowEnd),
     totalDaysOutside |-> tsStatus.totalDaysOutside,
     daysRemaining |-> tsStatus.daysRemaining,
     status |-> tsStatus.status]

\* What runTs returns, as the tests compare it.
TsResult(analysisRows, status) ==
    [failed |-> FALSE,
     trips |-> [i \in 1..Len(analysisRows) |-> TsTripFields(analysisRows[i])],
     status |-> TsStatusFields(status)]

\* runTs from the parsed trips and the config on: calculateStatus throws
\* on no trips, and a date that does not parse leaves no date to compare.
TsAnalysis(trips, config) ==
    IF Len(trips) = 0 \/ config.customDate = null THEN NoOutput
    ELSE TsResult(analyzeTrips(trips, config), calculateStatus(trips, config, 0))

\* runTs of the end-to-end tests, with the fields the tests compare
\* rendered as the tests render them.
TsOutput(text, dateStr, windowMonths, absenceLimit) ==
    TsAnalysis(parseTripsFromText(text),
               [windowMonths |-> windowMonths, absenceLimit |-> absenceLimit,
                customDate |-> parseDate(dateStr)])

(***************************************************************************)
(* Inputs of the calls.                                                    *)
(***************************************************************************)

\* The calendar date (year, month 1..12, day) as the parser and the tests
\* build it: UTC midnight.
Day(y, m, d) == DateUTC(y, m - 1, d)

SeqsUpTo(S, n) == UNION {[1..k -> S] : k \in 0..n}

Years == {2023, 2024}

MonthDays == {1, 15, 28, 29, 30, 31}

\* Every (year, month, day) of the years considered that is a legal date.
CalendarDates ==
    {Day(y, m, d) : <<y, m, d>> \in
        {c \in Years \X (1..12) \X MonthDays :
            CivilFromDays(DaysFromCivil(c[1], c[2], 1) + c[3] - 1).month = c[2]}}

\* Dates at local midnight of the host too, as addMonths itself returns them.
AddMonthsDates == CalendarDates \cup {t - tz : t \in CalendarDates}

WindowDays == {Day(2022, 12, 25), Day(2023, 1, 1), Day(2023, 1, 5), Day(2023, 12, 31)}

\* Trips over the window days, those with end < start included.
WindowTrips == {MkTrip(s, e) : <<s, e>> \in WindowDays \X WindowDays}

Windows == {Day(2023, 1, 1), Day(2023, 1, 5)}
           \X {Day(2023, 1, 1), Day(2023, 1, 5), Day(2023, 12, 31)}

AnalysisTrips ==
    {MkTrip(Day(2023, 5, 25), Day(2023, 8, 10)),
     MkTrip(Day(2023, 9, 15), Day(2023, 9, 20)),
     MkTrip(Day(2023, 8, 1), Day(2023, 9, 20)),
     MkTrip(Day(2022, 8, 5), Day(2022, 8, 10)),
     MkTrip(Day(2023, 2, 20), Day(2023, 3, 31))}

Configs == [windowMonths : {1, 6, 12}, absenceLimit : {90, 180}]

MaxLimit == 30

\* Every small limit, and the limits around the presets (90, 180, 182) and
\* around the point where 15% of the limit reaches 30 days.
Limits == (1..MaxLimit) \cup {90, 180, 182, 193, 194, 200, 250}

\* Trip lists for calculateStatus: the empty list, the two trips of the
\* tests, one trip from 1 January 2023 of a chosen length, a trip that
\* ends on an evaluation date, and two trips around the evaluation dates.
StatusTripLists ==
    {<<>>,
     <<MkTrip(Day(2023, 5, 25), Day(2023, 8, 10)), MkTrip(Day(2023, 9, 15), Day(2023, 9, 20))>>}
    \cup {<<MkTrip(Day(2023, 1, 1), e)>> :
            e \in {Day(2023, 1, 10), Day(2023, 6, 2), Day(2023, 6, 3), Day(2023, 6, 4),
                   Day(2023, 6, 29), Day(2023, 6, 30), Day(2023, 9, 30)}}
    \cup {<<MkTrip(Day(2023, 12, 1), Day(2023, 12, 15))>>,
          <<MkTrip(Day(2022, 11, 20), Day(2023, 1, 5)), MkTrip(Day(2022, 12, 1),
                                                               Day(2023, 12, 14))>>}

StatusConfigs ==
    [windowMonths : {12}, absenceLimit : Limits,
     customDate : {null, Some(Day(2023, 12, 15)), Some(Day(2023, 1, 5))}]

\* Readings of the host clock: an afternoon and a late evening (UTC).
Clock == {Day(2023, 12, 15) + 13, Day(2023, 12, 15) + 22}

\* Dates given to formatDate: the calendar dates, the first and the last
\* day with a year of four digits, the days next to them, and a Date
\* that is not at midnight.
FormatDates ==
    CalendarDates
    \cup {Day(1000, 1, 1), Day(9999, 12, 31), Day(999, 12, 31), Day(10000, 1, 1),
          Day(2023, 1, 5), Day(2023, 5, 25), Day(2023, 1, 5) + 13}

\* Date texts: every pair of two-digit fields with every separator and
\* year, day-first and year-first.
TwoDigits == {"00", "02", "05", "12", "13", "29", "30", "31", "32"}

Separators == {".", "/", "-"}

YearTexts == {"2023", "2024", "0050"}

NumericDateTexts ==
    {f[1] \o f[3] \o f[2] \o f[3] \o f[4] :
        f \in TwoDigits \X TwoDigits \X Separators \X YearTexts}
    \cup {f[4] \o f[3] \o f[1] \o f[3] \o f[2] :
        f \in TwoDigits \X TwoDigits \X Separators \X YearTexts}

MonthWords ==
    {"May", "may", "MAY", "Jun", "June", "Feb", "February", "Oct", "October",
     "Sept", "constructor", "Xyz"}

WordDateTexts ==
    {f[1] \o f[2] \o f[3] \o " " \o f[4] :
        f \in {"05", "29", "31"} \X {" ", "\t "} \X MonthWords \X {"2023", "2024"}}

\* One valid text of each of the ten formats.
ValidSamples ==
    {"25.05.2023", "25/05/2023", "25-05-2023", "2023-05-25", "2023/05/25", "2023.05.25",
     "05/25/2023", "05-25-2023", "25 May 2023", "25 January 2024"}

ExtraChars == {"x", "7", ".", "/", "-", ","}

Padding == {"", " \t"}

\* A valid text, padded, with or without one extra character before it or
\* after it.
PaddedTexts ==
    {f[1] \o f[2] \o f[3] \o f[4] \o f[5] :
        f \in {g \in Padding \X (ExtraChars \cup {""}) \X ValidSamples
                      \X (ExtraChars \cup {""}) \X Padding :
                  (g[2] = "" \/ g[4] = "") /\ (g[1] = "" \/ g[5] = "")}}

OtherTexts ==
    {"", "   ", "\t", "not-a-date", "2023-05-25extra", "25.05.23", "25.05/2023",
     "5.5.2023", "25May2023", "25 May2023", "2023-5-25", "Start", "date"}

DateTexts == NumericDateTexts \cup WordDateTexts \cup PaddedTexts \cup OtherTexts

\* Lines of input text: a header, rows in several formats and delimiters,
\* a row that is no date, a single cell, an empty line, a row of dates
\* written with a month name, a row whose end precedes its start, a row
\* of three tab-separated cells ending on the day another row ends, and a
\* one-day row with an empty third cell.
LinePool ==
    {"Start,End",
     "25.05.2023,10.08.2023",
     "15.09.2023\t20.09.2023",
     "invalid,date",
     "single-value",
     "",
     "25 October 2023,30 October 2023",
     " 20.09.2023 , 15.09.2023 , back",
     "01.08.2023\t10.08.2023\t Rome ",
     "25.05.2023,25.05.2023,"}

RECURSIVE Join(_, _)
Join(lines, eol) ==
    IF Len(lines) = 0 THEN ""
    ELSE IF Len(lines) = 1 THEN lines[1]
    ELSE lines[1] \o eol \o Join(Tail(lines), eol)

\* The three-line inputs of the tests.
ExampleTexts ==
    {"Start,End\n25.05.2023,10.08.2023\n15.09.2023,20.09.2023",
     "25.05.2023,10.08.2023\ninvalid,date\n15.09.2023,20.09.2023",
     "25.05.2023,10.08.2023\nsingle-value\n15.09.2023,20.09.2023",
     "25.05.2023,10.08.2023\r\n15.09.2023,20.09.2023\r\n",
     "   \n  \n  ",
     "single-value\nStart,End\n25.05.2023,10.08.2023",
     "single-value\n25 October 2023,30 October 2023\nStart,End"}

\* Cells of the rows given to isHeaderRow: header words in several cases,
\* words that hold a keyword inside, words that hold none, and dates.
HeaderCells ==
    {"Start", "End", "START", "Departure", "Arrival", "From", "To", " begin ",
     "Update", "foo", "bar", "", "25.05.2023", "10.08.2023", "30.02.2023",
     "25 October 2023", "01 Oct 2023"}

\* Rows of three cells.
ExampleRows ==
    {<<"25.05.2023", "10.08.2023", "Start date">>, <<"Start", "End", "Notes">>,
     <<"foo", "10.08.2023", "25.05.2023">>}

Rows == SeqsUpTo(HeaderCells, MaxRowCells) \cup ExampleRows

\* The cases of the end-to-end tests: texts of one or two lines under a
\* header or not, a date, a window and a limit.
CaseLines ==
    {"Start,End", "25.05.2023,10.08.2023", "15.09.2023,20.09.2023",
     "01.08.2023,10.08.2023", "2023-09-15\t2023-09-20", "single-value",
     "25.05.2023,10.08.2023,Italy", "31.01.2023,29.02.2024", "01.01.0050,05.01.0050",
     "25 October 2023,30 October 2023"}

CaseTexts ==
    {Join(lines, "\n") : lines \in SeqsUpTo(CaseLines, MaxLines) \ {<<>>}}
    \cup {"Start,End\n25.05.2023,10.08.2023\n15.09.2023,20.09.2023\n"}

CaseDates == {"15.11.2023", "29.02.2024"}

CaseConfigs == [windowMonths : {6, 12}, absenceLimit : {90, 180}]

Texts ==
    {Join(lines, eol) : lines \in SeqsUpTo(LinePool, MaxLines), eol \in {"\n", "\r\n"}}
    \cup ExampleTexts

(***************************************************************************)
(* The engine keeps no state between calls: a behaviour is one call, by    *)
(* any caller, with any input, on a host in some time zone.                *)
(***************************************************************************)
Idle == call.op = "none"

AddMonths ==
    /\ Idle
    /\ \E date \in AddMonthsDates, months \in (0 - MaxMonths)..MaxMonths :
          /\ call' = [op |-> "addMonths", date |-> date, months |-> months]
          /\ ret' = addMonths(date, months)
    /\ UNCHANGED <<tz, tripInput>>

CalculateDaysInWindow ==
    /\ Idle
    /\ \E trips \in SeqsUpTo(WindowTrips, MaxTrips), w \in Windows :
          /\ call' = [op |-> "calculateDaysInWindow", trips |-> trips,
                      windowStart |-> w[1], windowEnd |-> w[2]]
          /\ ret' = calculateDaysInWindow(trips, w[1], w[2])
    /\ UNCHANGED <<tz, tripInput>>

AnalyzeTrips ==
    /\ Idle
    /\ \E trips \in SeqsUpTo(AnalysisTrips, MaxTrips), config \in Configs :
          /\ call' = [op |-> "analyzeTrips", trips |-> trips, config |-> config]
          /\ ret' = analyzeTrips(trips, config)
    /\ UNCHANGED <<tz, tripInput>>

CalculateStatus ==
    /\ Idle
    /\ \E trips \in StatusTripLists, config \in StatusConfigs, now \in Clock :
          /\ call' = [op |-> "calculateStatus", trips |-> trips, config |-> config,
                      now |-> now]
          /\ ret' = calculateStatus(trips, config, now)
    /\ UNCHANGED <<tz, tripInput>>

ParseDate ==
    /\ Idle
    /\ \E dateStr \in DateTexts :
          /\ call' = [op |-> "parseDate", dateStr |-> dateStr]
          /\ ret' = parseDate(dateStr)
    /\ UNCHANGED <<tz, tripInput>>

ParseTripsFromText ==
    /\ Idle
    /\ \E text \in Texts :
          /\ call' = [op |-> "parseTripsFromText", text |-> text]
          /\ ret' = parseTripsFromText(text)
    /\ UNCHANGED <<tz, tripInput>>

IsHeaderRow ==
    /\ Idle
    /\ \E row \in Rows :
          /\ call' = [op |-> "isHeaderRow", row |-> row]
          /\ ret' = isHeaderRow(row)
    /\ UNCHANGED <<tz, tripInput>>

FormatDate ==
    /\ Idle
    /\ \E date \in FormatDates :
          /\ call' = [op |-> "formatDate", date |-> date]
          /\ ret' = formatDate(date)
    /\ UNCHANGED <<tz, tripInput>>

\* One case of the end-to-end tests: the same text, date, window and limit
\* given to the Go program and to the TypeScript services.
RunCase ==
    /\ Idle
    /\ \E csv \in CaseTexts, dateStr \in CaseDates, config \in CaseConfigs :
          /\ call' = [op |-> "runCase", csv |-> csv, dateStr |-> dateStr,
                      windowMonths |-> config.windowMonths,
                      absenceLimit |-> config.absenceLimit]
          /\ ret' = [go |-> GoJsonOutput(csv, dateStr, config.windowMonths,
                                         config.absenceLimit),
                     ts |-> TsOutput(csv, dateStr, config.windowMonths,
                                     config.absenceLimit)]
    /\ UNCHANGED <<tz, tripInput>>

Init ==
    /\ tz \in TZOffsets
    /\ call = [op |-> "none"]
    /\ ret = null
    /\ tripInput = null

Next ==
    \/ AddMonths
    \/ CalculateDaysInWindow
    \/ AnalyzeTrips
    \/ CalculateStatus

Spec == Init /\ [][Next]_vars

\* Calls of the two parsers; they read no clock and no time zone.
ParserNext ==
    \/ ParseDate
    \/ IsHeaderRow
    \/ ParseTripsFromText
    \/ FormatDate

\* Neither parser reads the host's time zone (Date.UTC and the getUTC*
\* getters only): one host stands for all.
ParserInit ==
    /\ tz = 0
    /\ call = [op |-> "none"]
    /\ ret = null
    /\ tripInput = null

ParserSpec == ParserInit /\ [][ParserNext]_vars

\* Calls of every service.
EngineNext == Next \/ ParserNext

EngineSpec == Init /\ [][EngineNext]_vars

\* Runs of the end-to-end comparison, on a host in any time zone.
CaseNext == RunCase

ConformanceSpec == Init /\ [][CaseNext]_vars

(***************************************************************************)
(* Definitions the claims are stated with, independent of the code above.  *)
(***************************************************************************)
Min(a, b) == IF a <= b THEN a ELSE b

Max(a, b) == IF a >= b THEN a ELSE b

RECURSIVE SumOf(_, _)
SumOf(f, S) ==
    IF S = {} THEN 0
    ELSE LET x == CHOOSE y \in S : TRUE IN f[x] + SumOf(f, S \ {x})

\* Whole days from time value a to time value b.
DaysBetween(a, b) == (b - a) \div MS_PER_DAY

\* The inclusive clipped overlap of a trip with the window.
ClippedOverlap(trip, windowStart, windowEnd) ==
    IF trip.end < windowStart \/ trip.start > windowEnd THEN 0
    ELSE DaysBetween(Max(trip.start, windowStart), Min(trip.end, windowEnd)) + 1

SumOfOverlaps(trips, windowStart, windowEnd) ==
    SumOf([i \in 1..Len(trips) |-> ClippedOverlap(trips[i], windowStart, windowEnd)],
          1..Len(trips))

IsLeapYear(y) == (y % 4 = 0 /\ y % 100 # 0) \/ y % 400 = 0

DaysInMonth(y, m) ==
    IF m = 2 THEN (IF IsLeapYear(y) THEN 29 ELSE 28)
    ELSE IF m \in {4, 6, 9, 11} THEN 30 ELSE 31

\* The calendar date (UTC fields) of a time value.
CalendarOf(t) == [year |-> getUTCFullYear(t), month |-> getUTCMonth(t) + 1, day |-> getUTCDate(t)]

\* The calendar date c shifted by a number of calendar months, the day
\* clamped to the length of the target month.
ShiftMonths(c, months) ==
    LET idx == c.year * 12 + (c.month - 1) + months
        y == idx \div 12
        m == (idx % 12) + 1
    IN  [year |-> y, month |-> m, day |-> Min(c.day, DaysInMonth(y, m))]

\* The least integer not below 15% of the limit, capped at 30.
CautionThreshold(limit) ==
    Min(30, CHOOSE n \in 0..limit : 100 * n >= 15 * limit /\ 100 * (n - 1) < 15 * limit)

(***************************************************************************)
(* C1: for every trip list and window, calculateDaysInWindow returns the   *)
(* sum over all trips of the inclusive clipped overlap; a trip outside the *)
(* window adds 0, overlapping trips are each counted, and a trip touching  *)
(* the window on a single day adds 1.                                      *)
(***************************************************************************)
C1_WindowSum ==
    /\ call.op = "calculateDaysInWindow" =>
          ret = SumOfOverlaps(call.trips, call.windowStart, call.windowEnd)
    /\ Idle =>
          /\ calculateDaysInWindow(<<MkTrip(Day(2022, 12, 25), Day(2023, 1, 5))>>,
                                   Day(2023, 1, 1), Day(2023, 12, 31)) = 5
          /\ calculateDaysInWindow(<<MkTrip(Day(2023, 3, 15), Day(2023, 3, 20)),
                                     MkTrip(Day(2023, 6, 10), Day(2023, 6, 15))>>,
                                   Day(2023, 1, 1), Day(2023, 12, 31)) = 12
          /\ calculateDaysInWindow(<<MkTrip(Day(2022, 12, 25), Day(2023, 1, 1))>>,
                                   Day(2023, 1, 1), Day(2023, 12, 31)) = 1

\* Two trips that overlap each other, the first clipped by the window
\* start: 5 + 5 days, none of them de-duplicated.
C1_Witness ==
    /\ call.op = "calculateDaysInWindow"
    /\ call.trips = <<MkTrip(Day(2022, 12, 25), Day(2023, 1, 5)),
                      MkTrip(Day(2023, 1, 1), Day(2023, 1, 5))>>
    /\ call.windowStart = Day(2023, 1, 1)
    /\ call.windowEnd = Day(2023, 12, 31)
    /\ ret = 10

(***************************************************************************)
(* C2: for every calendar date d and every integer m, addMonths(d, m) is   *)
(* the calendar date whose (year, month) is that of d shifted by m months  *)
(* and whose day is the day of d clamped to the length of that month.      *)
(* A calendar date is a Date at UTC midnight, as parseDate returns it and  *)
(* as the tests of addMonths build it.                                     *)
(***************************************************************************)
C2_AddMonthsCalendar ==
    call.op = "addMonths" /\ call.date \in CalendarDates =>
        LET c == ShiftMonths(CalendarOf(call.date), call.months)
        IN  CalendarOf(ret) = c

\* The same on a host whose local time is UTC, where it holds.
C2_AddMonthsOnUTCHost == tz = 0 => C2_AddMonthsCalendar

\* In every time zone the local fields of the result are the local fields
\* of the argument, shifted and clamped, at local midnight.
C2_AddMonthsLocalFields ==
    call.op = "addMonths" =>
        LET c == ShiftMonths(CivilFromDays((call.date + tz) \div MS_PER_DAY), call.months)
        IN  ret + tz = Day(c.year, c.month, c.day)

(***************************************************************************)
(* C3: calculateStatus classifies 'exceeded' if daysRemaining < 0, else    *)
(* 'caution' if daysRemaining < min(30, ceil(absenceLimit * 0.15)), else   *)
(* 'ok'; for a limit of 180 the threshold is 27.                           *)
(***************************************************************************)
C3_StatusPrecedence ==
    call.op = "calculateStatus" /\ call.trips # <<>> =>
        LET limit == call.config.absenceLimit
            expected == IF ret.daysRemaining < 0 THEN "exceeded"
                        ELSE IF ret.daysRemaining < CautionThreshold(limit) THEN "caution"
                        ELSE "ok"
        IN  /\ ret.status = expected
            /\ limit = 180 =>
                  /\ ret.daysRemaining = 0 - 1 => ret.status = "exceeded"
                  /\ ret.daysRemaining = 0 => ret.status = "caution"
                  /\ ret.daysRemaining = 26 => ret.status = "caution"
                  /\ ret.daysRemaining = 27 => ret.status = "ok"

\* Limit 180 with 26 days remaining, one below the threshold of 27.
C3_Witness ==
    /\ call.op = "calculateStatus"
    /\ call.trips # <<>>
    /\ call.config.absenceLimit = 180
    /\ ret.daysRemaining = 26
    /\ ret.status = "caution"

\* The other cases of the claim are reached as well.
C3_Reached_Exceeded == call.op = "calculateStatus" /\ call.trips # <<>>
    /\ call.config.absenceLimit = 180 /\ ret.daysRemaining = 0 - 1

C3_Reached_Ok == call.op = "calculateStatus" /\ call.trips # <<>>
    /\ call.config.absenceLimit = 180 /\ ret.daysRemaining = 27

C3_Reached_Zero == call.op = "calculateStatus" /\ call.trips # <<>>
    /\ call.config.absenceLimit = 180 /\ ret.daysRemaining = 0

(***************************************************************************)
(* C4: calculateStatus with an empty trip list raises an explicit          *)
(* 'no trips to evaluate' error from a precondition check, rather than     *)
(* failing on the access to the last element.                              *)
(***************************************************************************)
C4_EmptyTripsExplicitError ==
    call.op = "calculateStatus" /\ call.trips = <<>> =>
        ret = Thrown("Error", "no trips to evaluate")

(***************************************************************************)
(* C5: analyzeTrips returns one row per trip, in order; the row of a trip  *)
(* counts ALL trips in the window of windowMonths months ending on the     *)
(* trip's end, and daysRemaining = absenceLimit - daysInWindow.            *)
(***************************************************************************)
C5_AnalyzeTrips ==
    /\ call.op = "analyzeTrips" =>
          /\ Len(ret) = Len(call.trips)
          /\ \A i \in 1..Len(call.trips) :
                LET trip == call.trips[i]
                    windowStart == addMonths(trip.end, 0 - call.config.windowMonths)
                IN  /\ ret[i].trip = trip
                    /\ ret[i].daysInWindow = SumOfOverlaps(call.trips, windowStart, trip.end)
                    /\ ret[i].daysRemaining = call.config.absenceLimit - ret[i].daysInWindow
    /\ Idle =>
          LET rows == analyzeTrips(
                          parseTripsFromText(
                              "Start,End\n25.05.2023,10.08.2023\n15.09.2023,20.09.2023"),
                          [windowMonths |-> 12, absenceLimit |-> 180])
          IN  /\ <<rows[1].daysInWindow, rows[2].daysInWindow>> = <<78, 84>>
              /\ <<rows[1].daysRemaining, rows[2].daysRemaining>> = <<102, 96>>

\* The second trip ends later than the first and overlaps the first's
\* window: the first row counts its 10 days of 1..10 August too.
C5_Witness ==
    /\ call.op = "analyzeTrips"
    /\ call.trips = <<MkTrip(Day(2023, 5, 25), Day(2023, 8, 10)),
                      MkTrip(Day(2023, 8, 1), Day(2023, 9, 20))>>
    /\ call.config = [windowMonths |-> 12, absenceLimit |-> 180]
    /\ ret[1].daysInWindow = 88
    /\ ret[1].daysRemaining = 92

(***************************************************************************)
(* Readings of a date text, for the claims about parseDate.                *)
(***************************************************************************)
Num(t, i, j) == ToNumber(SubSeq(t, i, j))

\* t is dd<sep>dd<sep>dddd
IsTwoTwoFour(t, sep) ==
    /\ Len(t) = 10
    /\ Ch(t, 3) = sep /\ Ch(t, 6) = sep
    /\ \A i \in {1, 2, 4, 5, 7, 8, 9, 10} : IsDigit(Ch(t, i))

\* t is dddd<sep>dd<sep>dd
IsFourTwoTwo(t, sep) ==
    /\ Len(t) = 10
    /\ Ch(t, 5) = sep /\ Ch(t, 8) = sep
    /\ \A i \in {1, 2, 3, 4, 6, 7, 9, 10} : IsDigit(Ch(t, i))

MonthNames ==
    <<"january", "february", "march", "april", "may", "june", "july", "august",
      "september", "october", "november", "december">>

\* The months a word names, in full or by its first three letters.
MonthsNamed(word) ==
    {k \in 1..12 : toLowerCase(word) = MonthNames[k]
                   \/ toLowerCase(word) = SubSeq(MonthNames[k], 1, 3)}

\* The word of a text "dd <word> dddd", or "" when the text is no such text.
WordOf(t) ==
    LET n == Len(t)
        middle == SubSeq(t, 3, n - 4)
    IN  IF /\ n >= 9
           /\ \A i \in {1, 2, n - 3, n - 2, n - 1, n} : IsDigit(Ch(t, i))
           /\ IsSpace(Ch(middle, 1)) /\ IsSpace(Ch(middle, Len(middle)))
           /\ AllLetters(trim(middle))
        THEN trim(middle)
        ELSE ""

\* Every (year, month, day) a trimmed text can be read as in one of the ten
\* supported formats.
Readings(t) ==
    UNION {IF IsTwoTwoFour(t, sep)
           THEN {[year |-> Num(t, 7, 10), month |-> Num(t, 4, 5), day |-> Num(t, 1, 2)]}
                \cup (IF sep = "." THEN {}
                      ELSE {[year |-> Num(t, 7, 10), month |-> Num(t, 1, 2),
                             day |-> Num(t, 4, 5)]})
           ELSE IF IsFourTwoTwo(t, sep)
           THEN {[year |-> Num(t, 1, 4), month |-> Num(t, 6, 7), day |-> Num(t, 9, 10)]}
           ELSE {} : sep \in Separators}
    \cup {[year |-> Num(t, Len(t) - 3, Len(t)), month |-> k, day |-> Num(t, 1, 2)] :
            k \in MonthsNamed(WordOf(t))}

Legal(r) ==
    r.month \in 1..12 /\ r.day >= 1 /\ r.day <= DaysInMonth(r.year, r.month)

(***************************************************************************)
(* C6: for every text aa/bb/yyyy or aa-bb-yyyy with aa and bb both in      *)
(* 01..12, parseDate returns the date with day aa and month bb.            *)
(***************************************************************************)
C6_EuropeanFirst ==
    call.op = "parseDate" =>
        LET t == trim(call.dateStr)
        IN  \A sep \in {"/", "-"} :
                IsTwoTwoFour(t, sep) /\ Num(t, 1, 2) \in 1..12 /\ Num(t, 4, 5) \in 1..12 =>
                    /\ ret # null
                    /\ CalendarOf(ret[1]) =
                          [year |-> Num(t, 7, 10), month |-> Num(t, 4, 5), day |-> Num(t, 1, 2)]

\* What holds: with a year from 0100 on the reading is the European one,
\* and with any year the reading is never the US one.
C6_EuropeanFirstFromYear100 ==
    call.op = "parseDate" =>
        LET t == trim(call.dateStr)
        IN  \A sep \in {"/", "-"} :
                IsTwoTwoFour(t, sep) /\ Num(t, 1, 2) \in 1..12 /\ Num(t, 4, 5) \in 1..12 =>
                    IF Num(t, 7, 10) >= 100
                    THEN /\ ret # null
                         /\ CalendarOf(ret[1]) = [year |-> Num(t, 7, 10),
                                                  month |-> Num(t, 4, 5), day |-> Num(t, 1, 2)]
                    ELSE ret = null

C6_Reached ==
    call.op = "parseDate" /\ call.dateStr = "05/12/2023" /\ ret = Some(Day(2023, 12, 5))

(***************************************************************************)
(* C7: every date parseDate returns is a legal calendar date that the text *)
(* reads as; a text in a supported shape with no legal reading returns no  *)
(* match: 30.02.2023 and 29.02.2023 do not parse, 29.02.2024 does.         *)
(***************************************************************************)
C7_LegalDatesOnly ==
    /\ call.op = "parseDate" =>
          LET t == trim(call.dateStr)
          IN  /\ ret # null => \E r \in Readings(t) : Legal(r) /\ CalendarOf(ret[1]) = r
              /\ (\A r \in Readings(t) : ~Legal(r)) => ret = null
              /\ call.dateStr \in {"30.02.2023", "29.02.2023"} => ret = null
              /\ call.dateStr = "29.02.2024" =>
                    ret # null /\ CalendarOf(ret[1]) = [year |-> 2024, month |-> 2, day |-> 29]

\* 30 February is in a supported shape and is rejected, not read as 2 March.
C7_Witness ==
    call.op = "parseDate" /\ call.dateStr = "30.02.2023" /\ ret = null

C7_Reached_LeapDay ==
    call.op = "parseDate" /\ call.dateStr = "29.02.2024" /\ ret = Some(Day(2024, 2, 29))

(***************************************************************************)
(* C8: for every text aa/bb/yyyy or aa-bb-yyyy with aa in 01..12 and bb    *)
(* above 12 a legal day of month aa in year yyyy, parseDate returns the    *)
(* date with month aa and day bb.                                          *)
(***************************************************************************)
C8_USForms ==
    call.op = "parseDate" =>
        LET t == trim(call.dateStr)
        IN  \A sep \in {"/", "-"} :
                /\ IsTwoTwoFour(t, sep)
                /\ Num(t, 1, 2) \in 1..12
                /\ Num(t, 4, 5) > 12
                /\ Num(t, 4, 5) <= DaysInMonth(Num(t, 7, 10), Num(t, 1, 2))
                =>  /\ ret # null
                    /\ CalendarOf(ret[1]) =
                          [year |-> Num(t, 7, 10), month |-> Num(t, 1, 2), day |-> Num(t, 4, 5)]

\* What holds: the same for the years from 0100 on.
C8_USFormsFromYear100 ==
    call.op = "parseDate" =>
        LET t == trim(call.dateStr)
        IN  \A sep \in {"/", "-"} :
                /\ IsTwoTwoFour(t, sep)
                /\ Num(t, 1, 2) \in 1..12
                /\ Num(t, 4, 5) > 12
                /\ Num(t, 4, 5) <= DaysInMonth(Num(t, 7, 10), Num(t, 1, 2))
                =>  IF Num(t, 7, 10) >= 100
                    THEN /\ ret # null
                         /\ CalendarOf(ret[1]) = [year |-> Num(t, 7, 10),
                                                  month |-> Num(t, 1, 2), day |-> Num(t, 4, 5)]
                    ELSE ret = null

C8_Reached ==
    call.op = "parseDate" /\ call.dateStr = "05/25/2023" /\ ret = Some(Day(2023, 5, 25))

(***************************************************************************)
(* C9: parseDate returns a date or the no-match value for every text; an   *)
(* empty or white text returns no match, and so does a text that, trimmed, *)
(* is a valid date text with one more character before or after it.        *)
(***************************************************************************)
\* w is a valid date in a supported format as it stands.
IsDateText(w) == Len(w) > 0 /\ w = trim(w) /\ parseDate(w) # null

C9_WholeTextOnly ==
    call.op = "parseDate" =>
        LET t == trim(call.dateStr)
        IN  /\ ret = null \/ (Len(ret) = 1 /\ ret[1] \in Int)
            /\ Len(t) = 0 => ret = null
            /\ Len(t) >= 2 /\ IsDateText(SubSeq(t, 1, Len(t) - 1)) => ret = null
            /\ Len(t) >= 2 /\ IsDateText(SubSeq(t, 2, Len(t))) => ret = null

\* The date 2023-05-25 followed by "extra".
C9_Witness ==
    call.op = "parseDate" /\ call.dateStr = "2023-05-25extra" /\ ret = null

\* A valid date text followed by one character, and one preceded by one.
C9_Reached_After ==
    call.op = "parseDate" /\ call.dateStr = "2023-05-257" /\ ret = null

C9_Reached_Before ==
    call.op = "parseDate" /\ call.dateStr = " \tx25 May 2023" /\ ret = null

(***************************************************************************)
(* C10: for every text whose first line is a header row, the text and the  *)
(* text without that line parse to the same trip list.                     *)
(***************************************************************************)
FirstLineIsHeader(text) == isHeaderRow(CellsOf(SplitLines(text)[1]))

\* The text after its first line.
RECURSIVE WithoutFirstLine(_)
WithoutFirstLine(text) ==
    IF Len(text) = 0 THEN text
    ELSE IF Ch(text, 1) = "\n" THEN SubSeq(text, 2, Len(text))
    ELSE WithoutFirstLine(SubSeq(text, 2, Len(text)))

C10_HeaderIdempotence ==
    call.op = "parseTripsFromText" /\ FirstLineIsHeader(call.text) =>
        ret = parseTripsFromText(WithoutFirstLine(call.text))

\* What holds: the same, unless the line after the header (the first of
\* at least two cells) is a row of two dates that is itself taken for a
\* header: a date written with "October" contains the keyword "to".
NextRowTakenForHeader(text) ==
    LET lines == SelectSeq(SplitLines(WithoutFirstLine(text)),
                           LAMBDA line : Len(trim(line)) > 0 /\ Len(CellsOf(line)) >= 2)
    IN  /\ Len(lines) > 0
        /\ isHeaderRow(CellsOf(lines[1]))
        /\ parseDate(CellsOf(lines[1])[1]) # null
        /\ parseDate(CellsOf(lines[1])[2]) # null

C10_HoldsUnlessDatesTakenForHeader ==
    call.op = "parseTripsFromText" /\ FirstLineIsHeader(call.text)
        /\ ~NextRowTakenForHeader(call.text) =>
        ret = parseTripsFromText(WithoutFirstLine(call.text))

C10_Reached ==
    /\ call.op = "parseTripsFromText"
    /\ call.text = "Start,End\n25.05.2023,10.08.2023\n15.09.2023,20.09.2023"
    /\ ret = parseTripsFromText("25.05.2023,10.08.2023\n15.09.2023,20.09.2023")
    /\ Len(ret) = 2

(***************************************************************************)
(* C11: every trip parseTripsFromText returns has days = (end - start in   *)
(* whole days) + 1 and days >= 1, that is, end >= start.                   *)
(***************************************************************************)
C11_DaysAtLeastOne ==
    call.op = "parseTripsFromText" =>
        \A i \in 1..Len(ret) :
            /\ ret[i].days = DaysBetween(ret[i].start, ret[i].end) + 1
            /\ ret[i].days >= 1
            /\ ret[i].end >= ret[i].start

\* What holds: the day count is the difference plus one, and it is at
\* least 1 exactly for the trips that do not end before they start.
C11_DayCountFormula ==
    call.op = "parseTripsFromText" =>
        \A i \in 1..Len(ret) :
            /\ ret[i].days = DaysBetween(ret[i].start, ret[i].end) + 1
            /\ ret[i].days >= 1 <=> ret[i].end >= ret[i].start

C11_Reached ==
    /\ call.op = "parseTripsFromText"
    /\ call.text = " 20.09.2023 , 15.09.2023 , back"
    /\ Len(ret) = 1
    /\ ret[1].days = 0 - 4

(***************************************************************************)
(* Lines and cells of a text, for the claims about parseTripsFromText.     *)
(***************************************************************************)
\* The first position of s that holds one of the characters, 0 if none.
FirstIndexOf(s, chars) ==
    IF \E i \in 1..Len(s) : Ch(s, i) \in chars
    THEN CHOOSE i \in 1..Len(s) :
            Ch(s, i) \in chars /\ \A j \in 1..(i - 1) : Ch(s, j) \notin chars
    ELSE 0

\* The lines of a text, ended by LF or CRLF.
RECURSIVE LinesOfText(_)
LinesOfText(text) ==
    LET i == FirstIndexOf(text, {"\n"})
        crlf == i >= 2 /\ Ch(text, i - 1) = "\r"
    IN  IF i = 0 THEN <<text>>
        ELSE <<SubSeq(text, 1, IF crlf THEN i - 2 ELSE i - 1)>>
             \o LinesOfText(SubSeq(text, i + 1, Len(text)))

\* The trimmed cells of a line, separated by commas or tabs.
RECURSIVE CellsOfLine(_)
CellsOfLine(line) ==
    LET i == FirstIndexOf(line, {",", "\t"})
    IN  IF i = 0 THEN <<trim(line)>>
        ELSE <<trim(SubSeq(line, 1, i - 1))>> \o CellsOfLine(SubSeq(line, i + 1, Len(line)))

\* The non-blank lines of at least two cells, in order.
QualifyingLines(text) ==
    SelectSeq(LinesOfText(text),
              LAMBDA line : Len(trim(line)) > 0 /\ Len(CellsOfLine(line)) >= 2)

\* The first qualifying line is a header.
HeaderDetected(text) ==
    LET lines == QualifyingLines(text)
    IN  Len(lines) > 0 /\ isHeaderRow(CellsOfLine(lines[1]))

\* The qualifying lines apart from a detected header line.
DataLines(text) ==
    LET lines == QualifyingLines(text)
    IN  IF Len(lines) > 0 /\ isHeaderRow(CellsOfLine(lines[1])) THEN Tail(lines) ELSE lines

BothDatesParse(line) ==
    LET cells == CellsOfLine(line)
    IN  parseDate(cells[1]) # null /\ parseDate(cells[2]) # null

\* The data lines whose first two cells are dates, in input order.
TripLines(text) == SelectSeq(DataLines(text), BothDatesParse)

(***************************************************************************)
(* C12: parseTripsFromText returns a list for every text, the empty list   *)
(* for an empty or white text; lines end with LF or CRLF, cells are        *)
(* separated by comma or tab and trimmed; apart from a detected header     *)
(* line, the trips are as many as the non-blank lines of at least two      *)
(* cells whose first two cells are dates.                                  *)
(***************************************************************************)
C12_BadRowsDropped ==
    call.op = "parseTripsFromText" =>
        /\ DOMAIN ret = 1..Len(ret)
        /\ Len(trim(call.text)) = 0 => ret = <<>>
        /\ Len(ret) = Len(TripLines(call.text))
        /\ call.text \in {"25.05.2023,10.08.2023\n15.09.2023\t20.09.2023",
                          "25.05.2023,10.08.2023\ninvalid,date\n15.09.2023,20.09.2023",
                          "25.05.2023,10.08.2023\nsingle-value\n15.09.2023,20.09.2023",
                          "25.05.2023,10.08.2023\r\n15.09.2023,20.09.2023\r\n"}
              => Len(ret) = 2

\* The middle line of three is no row of dates: the other two give trips.
C12_Witness ==
    /\ call.op = "parseTripsFromText"
    /\ call.text = "25.05.2023,10.08.2023\ninvalid,date\n15.09.2023,20.09.2023"
    /\ Len(ret) = 2

C12_Reached_MixedDelimiters ==
    /\ call.op = "parseTripsFromText"
    /\ call.text = "25.05.2023,10.08.2023\r\n15.09.2023\t20.09.2023"
    /\ Len(ret) = 2

C12_Reached_WhiteText ==
    call.op = "parseTripsFromText" /\ call.text = "   \n  \n  " /\ ret = <<>>

(***************************************************************************)
(* C13: the list parseTripsFromText returns is sorted ascending by end     *)
(* date, and trips with equal end dates are in the order of their lines.   *)
(***************************************************************************)
\* The trip of a line of two dates.
TripOfLine(line) ==
    LET cells == CellsOfLine(line)
        start == parseDate(cells[1])[1]
        end == parseDate(cells[2])[1]
    IN  [start |-> start, end |-> end, days |-> DaysBetween(start, end) + 1]

\* The trips in the order of their lines.
TripsInLineOrder(text) ==
    LET lines == TripLines(text)
    IN  [k \in 1..Len(lines) |-> TripOfLine(lines[k])]

C13_SortedStable ==
    call.op = "parseTripsFromText" =>
        LET inOrder == TripsInLineOrder(call.text)
        IN  /\ \A i, j \in 1..Len(ret) : i < j => ret[i].end <= ret[j].end
            /\ \A e \in {ret[i].end : i \in 1..Len(ret)}
                     \cup {inOrder[i].end : i \in 1..Len(inOrder)} :
                  SelectSeq(ret, LAMBDA t : t.end = e)
                      = SelectSeq(inOrder, LAMBDA t : t.end = e)

\* Two trips that end on 10 August, the later start on the first line, and
\* an earlier end on a later line.
C13_Witness ==
    /\ call.op = "parseTripsFromText"
    /\ call.text = "01.08.2023\t10.08.2023\t Rome \n25.05.2023,10.08.2023"
    /\ Len(ret) = 2
    /\ ret[1].start = Day(2023, 8, 1)
    /\ ret[2].start = Day(2023, 5, 25)

C13_Reached_Reordered ==
    /\ call.op = "parseTripsFromText"
    /\ call.text = "15.09.2023\t20.09.2023\n25.05.2023,10.08.2023"
    /\ Len(ret) = 2
    /\ ret[1].end = Day(2023, 8, 10)
    /\ ret[2].end = Day(2023, 9, 20)

(***************************************************************************)
(* C14: the header check is made at most once, on the first non-blank line *)
(* of at least two cells (lines of fewer cells before it do not use it     *)
(* up); a header gives no trip; no later line is checked: a later line     *)
(* that looks like a header is a data row, dropped only when its dates do  *)
(* not parse.                                                              *)
(***************************************************************************)
NonBlankLines(text) == SelectSeq(LinesOfText(text), LAMBDA line : Len(trim(line)) > 0)

\* The position among the non-blank lines of the first line of at least
\* two cells, 0 if there is none.
FirstQualifying(text) ==
    LET lines == NonBlankLines(text)
        Q == {k \in 1..Len(lines) : Len(CellsOfLine(lines[k])) >= 2}
    IN  IF Q = {} THEN 0 ELSE CHOOSE k \in Q : \A m \in Q : k <= m

\* The trips of a sequence, as a set.
TripsIn(trips) == {trips[i] : i \in 1..Len(trips)}

C14_HeaderCheckedOnce ==
    call.op = "parseTripsFromText" =>
        LET lines == NonBlankLines(call.text)
            checked == headerCheckedLines(lines, 1, TRUE)
            first == FirstQualifying(call.text)
        IN  /\ Len(checked) <= 1
            /\ checked = IF first = 0 THEN <<>> ELSE <<first>>
            /\ \A k \in 1..Len(lines) :
                  LET row == CellsOfLine(lines[k])
                  IN  /\ k = first /\ isHeaderRow(row) =>
                            Len(ret) = Len(SelectSeq(SubSeq(lines, k + 1, Len(lines)),
                                        LAMBDA l : Len(CellsOfLine(l)) >= 2
                                                   /\ BothDatesParse(l)))
                      /\ k # first /\ Len(row) >= 2 =>
                            IF BothDatesParse(lines[k])
                            THEN TripOfLine(lines[k]) \in TripsIn(ret)
                            ELSE Len(ret) < Len(SelectSeq(lines,
                                        LAMBDA l : Len(CellsOfLine(l)) >= 2))

\* A row of two dates that reads as a header ("october" holds "to") on the
\* second line: it is a data row and gives a trip.
C14_Witness ==
    /\ call.op = "parseTripsFromText"
    /\ call.text = "25.05.2023,10.08.2023\n25 October 2023,30 October 2023"
    /\ Len(ret) = 2

\* A header after a line of one cell is still checked and skipped.
C14_Reached_AfterSingleCell ==
    /\ call.op = "parseTripsFromText"
    /\ call.text = "single-value\nStart,End\n25.05.2023,10.08.2023"
    /\ Len(ret) = 1

\* A header on a later line is dropped as a row whose dates do not parse.
C14_Reached_LateHeader ==
    /\ call.op = "parseTripsFromText"
    /\ call.text = "25.05.2023,10.08.2023\nStart,End"
    /\ Len(ret) = 1

(***************************************************************************)
(* C15: isHeaderRow is false for a row of fewer than 2 cells; true when    *)
(* the trimmed, lower-cased text of one of the first two cells contains    *)
(* start, end, begin, from, to, departure, arrival or date; otherwise true *)
(* exactly when one of the first two cells is no date.                     *)
(***************************************************************************)
Keywords == {"start", "end", "begin", "from", "to", "departure", "arrival", "date"}

Contains(s, word) ==
    \E i \in 1..(Len(s) - Len(word) + 1) : SubSeq(s, i, i + Len(word) - 1) = word

HoldsKeyword(cell) == \E word \in Keywords : Contains(toLowerCase(trim(cell)), word)

C15_IsHeaderRow ==
    call.op = "isHeaderRow" =>
        LET row == call.row
        IN  /\ ret \in BOOLEAN
            /\ Len(row) < 2 => ret = FALSE
            /\ Len(row) >= 2 /\ (HoldsKeyword(row[1]) \/ HoldsKeyword(row[2])) => ret = TRUE
            /\ Len(row) >= 2 /\ ~HoldsKeyword(row[1]) /\ ~HoldsKeyword(row[2]) =>
                  ret = (parseDate(row[1]) = null \/ parseDate(row[2]) = null)
            /\ row \in {<<"Start", "End">>, <<"START", "End">>, <<"Departure", "Arrival">>,
                        <<"From", "To">>, <<"foo", "bar">>} => ret = TRUE
            /\ row \in {<<"25.05.2023", "10.08.2023">>, <<"Start">>} => ret = FALSE

\* A keyword inside the text of a cell that parses as a date.
C15_Witness ==
    /\ call.op = "isHeaderRow"
    /\ call.row = <<"25.05.2023", "25 October 2023">>
    /\ ret = TRUE

C15_Reached_NoKeywordNoDate ==
    call.op = "isHeaderRow" /\ call.row = <<"foo", "10.08.2023">> /\ ret = TRUE

C15_Reached_TwoDates ==
    /\ call.op = "isHeaderRow"
    /\ call.row = <<"25.05.2023", "10.08.2023", "Start date">>
    /\ ret = FALSE

C15_Reached_OneCell ==
    call.op = "isHeaderRow" /\ call.row = <<"Start">> /\ ret = FALSE

(***************************************************************************)
(* C16: isHeaderRow is false for every row whose first two cells both      *)
(* parse as valid dates in any of the ten formats.                         *)
(***************************************************************************)
C16_ValidDatesNotHeader ==
    call.op = "isHeaderRow" /\ Len(call.row) >= 2
        /\ parseDate(call.row[1]) # null /\ parseDate(call.row[2]) # null
        => ret = FALSE

\* What holds: the same for the rows of dates that hold no keyword.
C16_ValidDatesWithoutKeywordNotHeader ==
    call.op = "isHeaderRow" /\ Len(call.row) >= 2
        /\ parseDate(call.row[1]) # null /\ parseDate(call.row[2]) # null
        => ret = (HoldsKeyword(call.row[1]) \/ HoldsKeyword(call.row[2]))

C16_Reached ==
    /\ call.op = "isHeaderRow"
    /\ call.row = <<"25 October 2023", "25 October 2023">>
    /\ ret = TRUE

(***************************************************************************)
(* C17: the trip of a line with a third cell carries the trimmed text of   *)
(* that cell as its notes; the trip of a line whose third cell is absent   *)
(* or empty has no notes.                                                  *)
(***************************************************************************)
HasNotes(trip) == "notes" \in DOMAIN trip

C17_NotesCarried ==
    call.op = "parseTripsFromText" =>
        \A k \in 1..Len(TripLines(call.text)) :
            LET cells == CellsOfLine(TripLines(call.text)[k])
                trip == TripOfLine(TripLines(call.text)[k])
            IN  \E i \in 1..Len(ret) :
                    /\ ret[i].start = trip.start
                    /\ ret[i].end = trip.end
                    /\ IF Len(cells) >= 3 /\ Len(cells[3]) > 0
                       THEN HasNotes(ret[i]) /\ ret[i]["notes"] = cells[3]
                       ELSE ~HasNotes(ret[i])

\* What holds: no trip carries notes, whatever its line holds.
C17_NoTripHasNotes ==
    call.op = "parseTripsFromText" =>
        \A i \in 1..Len(ret) : DOMAIN ret[i] = {"start", "end", "days"}

C17_Reached ==
    /\ call.op = "parseTripsFromText"
    /\ call.text = "01.08.2023\t10.08.2023\t Rome "
    /\ ret = <<[start |-> Day(2023, 8, 1), end |-> Day(2023, 8, 10), days |-> 10]>>

(***************************************************************************)
(* C18: for the same text, evaluation date, window and limit the JSON      *)
(* output of the Go program and the output of the TypeScript services      *)
(* (dates rendered dd.mm.yyyy) have the same number of trips, the same     *)
(* fields of every trip in the same order, and the same status fields.     *)
(***************************************************************************)
C18_GoAndTsAgree ==
    call.op = "runCase" => ret.go = ret.ts

\* The same on a host in UTC only.
C18_GoAndTsAgreeOnUTCHost ==
    call.op = "runCase" /\ tz = 0 => ret.go = ret.ts

\* What holds: on a host in UTC the two agree on every text whose lines
\* are all rows of two comma-separated cells, with years from 1000 on, the
\* first of which is not a row of dates taken for a header.
RectangularCommaText(text) ==
    \A k \in 1..Len(LinesOfText(text)) :
        LET line == LinesOfText(text)[k]
        IN  Len(line) = 0
            \/ (FirstIndexOf(line, {"\t"}) = 0 /\ Len(CellsOfLine(line)) = 2)

YearsFrom1000(text) ==
    \A k \in 1..Len(QualifyingLines(text)), c \in {1, 2} :
        LET t == GoParseDate(CellsOfLine(QualifyingLines(text)[k])[c])
        IN  t # null => GoCivil(t[1]).year >= 1000

C18_AgreeOnPlainTextsOnUTCHost ==
    call.op = "runCase" /\ tz = 0 /\ RectangularCommaText(call.csv)
        /\ YearsFrom1000(call.csv) => ret.go = ret.ts

C18_Reached_Agree ==
    /\ call.op = "runCase"
    /\ call.csv = "Start,End\n25.05.2023,10.08.2023\n15.09.2023,20.09.2023\n"
    /\ ret.go = ret.ts
    /\ ~ret.go.failed
    /\ Len(ret.go.trips) = 2

C18_Reached_GoFails ==
    /\ call.op = "runCase"
    /\ tz = 0
    /\ call.csv = "25.05.2023,10.08.2023\nsingle-value"
    /\ ret.go.failed
    /\ ~ret.ts.failed
    /\ Len(ret.ts.trips) = 1

(***************************************************************************)
(* C19: for a non-empty trip list, the result of calculateStatus has       *)
(* windowEnd = targetDate, windowStart = addMonths(targetDate,             *)
(* -windowMonths), totalDaysOutside = the days of the trips in             *)
(* [windowStart, targetDate], daysRemaining = absenceLimit -               *)
(* totalDaysOutside (negative or not); with an evaluation date supplied,   *)
(* targetDate is that date and isCustomDate is true.                       *)
(***************************************************************************)
C19_StatusFields ==
    call.op = "calculateStatus" /\ Len(call.trips) > 0 =>
        /\ ret.windowEnd = ret.targetDate
        /\ ret.windowStart = addMonths(ret.targetDate, 0 - call.config.windowMonths)
        /\ ret.totalDaysOutside = SumOfOverlaps(call.trips, ret.windowStart, ret.targetDate)
        /\ ret.totalDaysOutside
              = calculateDaysInWindow(call.trips, ret.windowStart, ret.targetDate)
        /\ ret.daysRemaining = call.config.absenceLimit - ret.totalDaysOutside
        /\ call.config.customDate # null =>
              ret.targetDate = call.config.customDate[1] /\ ret.isCustomDate = TRUE

\* An evaluation date inside the only trip: the window holds a part of it.
C19_Witness ==
    /\ call.op = "calculateStatus"
    /\ call.trips = <<MkTrip(Day(2023, 1, 1), Day(2023, 9, 30))>>
    /\ call.config.customDate = Some(Day(2023, 1, 5))
    /\ ret.isCustomDate
    /\ ret.targetDate = Day(2023, 1, 5)
    /\ ret.totalDaysOutside = 5

C19_Reached_Negative ==
    /\ call.op = "calculateStatus"
    /\ Len(call.trips) > 0
    /\ call.config.customDate # null
    /\ ret.daysRemaining < 0

C19_Reached_Today ==
    /\ call.op = "calculateStatus"
    /\ Len(call.trips) > 0
    /\ call.config.customDate = null
    /\ ret.totalDaysOutside > 0

(***************************************************************************)
(* C20: daysSinceLastTrip is the floor of (targetDate - lastTrip.end) in   *)
(* days, with no + 1: 0 when targetDate is the end of the last trip,       *)
(* negative when targetDate is before it; lastTripEnd is the end of the    *)
(* last trip of the list, which for a list parseTripsFromText returns is   *)
(* the latest end of all its trips.                                        *)
(***************************************************************************)
C20_DaysSinceLastTrip ==
    /\ call.op = "calculateStatus" /\ Len(call.trips) > 0 =>
          LET lastTrip == call.trips[Len(call.trips)]
          IN  /\ ret.lastTripEnd = lastTrip.end
              /\ ret.daysSinceLastTrip * MS_PER_DAY <= ret.targetDate - lastTrip.end
              /\ ret.targetDate - lastTrip.end < (ret.daysSinceLastTrip + 1) * MS_PER_DAY
              /\ ret.targetDate = lastTrip.end => ret.daysSinceLastTrip = 0
              /\ ret.targetDate < lastTrip.end => ret.daysSinceLastTrip < 0
    /\ call.op = "parseTripsFromText" /\ Len(ret) > 0 =>
          LET status == calculateStatus(ret, [windowMonths |-> 12, absenceLimit |-> 180,
                                              customDate |-> Some(Day(2023, 11, 15))], 0)
          IN  /\ \A i \in 1..Len(ret) : ret[i].end <= status.lastTripEnd
              /\ \E i \in 1..Len(ret) : ret[i].end = status.lastTripEnd

\* The evaluation date is the end of the last trip.
C20_Witness ==
    /\ call.op = "calculateStatus"
    /\ call.trips = <<MkTrip(Day(2023, 12, 1), Day(2023, 12, 15))>>
    /\ call.config.customDate = Some(Day(2023, 12, 15))
    /\ ret.daysSinceLastTrip = 0

C20_Reached_Negative ==
    /\ call.op = "calculateStatus"
    /\ Len(call.trips) > 0
    /\ call.config.customDate = Some(Day(2023, 1, 5))
    /\ ret.daysSinceLastTrip < 0

\* A text whose last line holds the trip that ends first.
C20_Reached_LatestEnd ==
    /\ call.op = "parseTripsFromText"
    /\ call.text = "15.09.2023\t20.09.2023\n25.05.2023,10.08.2023"
    /\ Len(ret) = 2
    /\ ret[2].end = Day(2023, 9, 20)

(***************************************************************************)
(* C21: when the config carries no evaluation date, calculateStatus uses   *)
(* as targetDate today's calendar date at UTC midnight (the year, month    *)
(* and day of the current date, no time of day) and reports isCustomDate   *)
(* = false, whatever time zone the host runs in.  The current date is the  *)
(* date the host clock shows, as the test reads it (today.getFullYear(),   *)
(* today.getMonth(), today.getDate()).                                     *)
(***************************************************************************)
HostToday(now) == CivilFromDays((now + tz) \div MS_PER_DAY)

C21_TodayAtUTCMidnight ==
    call.op = "calculateStatus" /\ Len(call.trips) > 0 /\ call.config.customDate = null =>
        LET today == HostToday(call.now)
        IN  /\ ret.targetDate = Day(today.year, today.month, today.day)
            /\ ret.isCustomDate = FALSE

\* The same on a host whose local time is UTC, where it holds.
C21_TodayOnUTCHost == tz = 0 => C21_TodayAtUTCMidnight

\* On every host the target date is the midnight of the host's own zone.
C21_TodayAtLocalMidnight ==
    call.op = "calculateStatus" /\ Len(call.trips) > 0 /\ call.config.customDate = null =>
        LET today == HostToday(call.now)
        IN  /\ ret.targetDate + tz = Day(today.year, today.month, today.day)
            /\ ret.isCustomDate = FALSE

\* A host east of Greenwich late in the evening (UTC): its date is already
\* the next day, and the target date is no UTC midnight.
C21_Reached ==
    /\ call.op = "calculateStatus"
    /\ Len(call.trips) > 0
    /\ call.config.customDate = null
    /\ tz = 3
    /\ call.now = Day(2023, 12, 15) + 22
    /\ ret.targetDate = Day(2023, 12, 16) - 3

(***************************************************************************)
(* C22: addMonths(d, 0) = d for every calendar date d (a Date at UTC       *)
(* midnight, as parseDate returns it and as the tests build it).           *)
(***************************************************************************)
C22_AddZeroMonths ==
    call.op = "addMonths" /\ call.months = 0 /\ call.date \in CalendarDates =>
        ret = call.date

\* The same on a host whose local time is UTC, where it holds.
C22_AddZeroMonthsOnUTCHost == tz = 0 => C22_AddZeroMonths

\* On every host it holds of the dates at the host's local midnight.
C22_AddZeroMonthsToLocalMidnight ==
    call.op = "addMonths" /\ call.months = 0 /\ call.date + tz \in CalendarDates =>
        ret = call.date

\* A host west of Greenwich: the UTC midnight reads as the evening before.
C22_Reached ==
    /\ call.op = "addMonths"
    /\ call.months = 0
    /\ tz = 0 - 5
    /\ call.date = Day(2023, 3, 1)
    /\ ret = Day(2023, 2, 28) + 5

(***************************************************************************)
(* The calculator on the heap.  The operators above give the values the    *)
(* functions compute; these give what the functions do to the objects      *)
(* they are handed.  A heap is the sequence of the objects allocated so    *)
(* far, a reference is a position in it, and a call returns the heap it    *)
(* leaves and its result (a reference, or a number).                       *)
(***************************************************************************)
DateObject(t) == [kind |-> "Date", time |-> t]

\* new ...: the object is placed after every object that exists.
Alloc(heap, object) == [heap |-> Append(heap, object), value |-> Len(heap) + 1]

\* The trips of an array of trips, as values.
TripValues(heap, trips) ==
    [i \in 1..Len(heap[trips].items) |->
        [start |-> heap[heap[heap[trips].items[i]].start].time,
         end |-> heap[heap[heap[trips].items[i]].end].time,
         days |-> heap[heap[trips].items[i]].days]]

\* The config object, as a value.
ConfigValue(heap, config) ==
    [windowMonths |-> heap[config].windowMonths,
     absenceLimit |-> heap[config].absenceLimit,
     customDate |-> IF heap[config].customDate = null THEN null
                    ELSE Some(heap[heap[config].customDate[1]].time)]

\* new Date(year, month, 0) of addMonths, whose getDate() is maxDay.
addMonthsLastDayOfMonth(date, months) ==
    NewDateLocal(NormalizeMonth(getFullYear(date), getMonth(date) + 1 + months).year,
                 NormalizeMonth(getFullYear(date), getMonth(date) + 1 + months).month, 0)

\* addMonths with date.setMonth(date.getMonth() + months): the argument
\* itself is moved and returned.
addMonthsOnHeapInPlace(heap, date, months) ==
    [heap |-> [heap EXCEPT ![date] = DateObject(addMonths(heap[date].time, months))],
     value |-> date]

\* addMonths reads its argument with getters and builds two Dates.
addMonthsOnHeap(heap, date, months) ==
    Alloc(Alloc(heap, DateObject(addMonthsLastDayOfMonth(heap[date].time, months))).heap,
          DateObject(addMonths(heap[date].time, months)))

\* calculateDaysInWindow reads the trips and the two Dates, and returns a
\* number.
calculateDaysInWindowOnHeap(heap, trips, windowStart, windowEnd) ==
    [heap |-> heap,
     value |-> calculateDaysInWindow(TripValues(heap, trips), heap[windowStart].time,
                                     heap[windowEnd].time)]

\* The object literal { trip, daysInWindow, daysRemaining } of the map
\* callback, built on the heap that addMonths left; it holds the trip it
\* was given.
analysisRowOnHeap(windowStart, trips, trip, config) ==
    Alloc(windowStart.heap,
          [kind |-> "AnalysisRow", trip |-> trip,
           daysInWindow |->
               calculateDaysInWindowOnHeap(windowStart.heap, trips, windowStart.value,
                                           windowStart.heap[trip].end).value,
           daysRemaining |->
               windowStart.heap[config].absenceLimit
               - calculateDaysInWindowOnHeap(windowStart.heap, trips, windowStart.value,
                                             windowStart.heap[trip].end).value])

\* trips.map(...) from element i on, with the rows built so far.
RECURSIVE analyzeTripsOnHeapFrom(_, _, _, _, _)
analyzeTripsOnHeapNext(row, trips, config, i, rows) ==
    analyzeTripsOnHeapFrom(row.heap, trips, config, i + 1, Append(rows, row.value))

analyzeTripsOnHeapFrom(heap, trips, config, i, rows) ==
    IF i > Len(heap[trips].items)
    THEN Alloc(heap, [kind |-> "Array", items |-> rows])
    ELSE analyzeTripsOnHeapNext(
             analysisRowOnHeap(
                 addMonthsOnHeap(heap, heap[heap[trips].items[i]].end,
                                 0 - heap[config].windowMonths),
                 trips, heap[trips].items[i], config),
             trips, config, i, rows)

analyzeTripsOnHeap(heap, trips, config) == analyzeTripsOnHeapFrom(heap, trips, config, 1, <<>>)

\* The target date of calculateStatus: the Date of the config, or the
\* Date built from three readings of the clock (each a new Date()).
targetDateOnHeap(heap, config, now) ==
    IF heap[config].customDate # null
    THEN [heap |-> heap, value |-> heap[config].customDate[1]]
    ELSE Alloc(heap \o <<DateObject(now), DateObject(now), DateObject(now)>>,
               DateObject(NewDateLocal(getFullYear(now), getMonth(now), getDate(now))))

\* The object literal that calculateStatus returns, built on the heap that
\* addMonths left; it holds the target date and the end of the last trip
\* that it was given.  Reading lastTrip.end of no trip throws.
statusOnHeap(windowStart, targetDate, trips, status) ==
    IF Len(windowStart.heap[trips].items) = 0
    THEN [heap |-> windowStart.heap, value |-> status]
    ELSE Alloc(windowStart.heap,
               [kind |-> "StatusResult",
                targetDate |-> targetDate,
                isCustomDate |-> status.isCustomDate,
                lastTripEnd |->
                    windowStart.heap[windowStart.heap[trips].items[
                        Len(windowStart.heap[trips].items)]].end,
                daysSinceLastTrip |-> status.daysSinceLastTrip,
                windowStart |-> windowStart.value,
                windowEnd |-> targetDate,
                totalDaysOutside |-> status.totalDaysOutside,
                daysRemaining |-> status.daysRemaining,
                status |-> status.status])

calculateStatusOnHeapAt(targetDate, trips, config, now) ==
    statusOnHeap(addMonthsOnHeap(targetDate.heap, targetDate.value,
                                 0 - targetDate.heap[config].windowMonths),
                 targetDate.value, trips,
                 calculateStatus(TripValues(targetDate.heap, trips),
                                 ConfigValue(targetDate.heap, config), now))

calculateStatusOnHeap(heap, trips, config, now) ==
    calculateStatusOnHeapAt(targetDateOnHeap(heap, config, now), trips, config, now)

\* The objects of a list of trips: for each trip its start Date, its end
\* Date and the trip, and then the array of the trips.
TripObjects(trips) ==
    [k \in 1..(3 * Len(trips)) |->
        IF k % 3 = 1 THEN DateObject(trips[(k + 2) \div 3].start)
        ELSE IF k % 3 = 2 THEN DateObject(trips[(k + 2) \div 3].end)
        ELSE [kind |-> "Trip", start |-> k - 2, end |-> k - 1, days |-> trips[k \div 3].days]]
    \o <<[kind |-> "Array", items |-> [i \in 1..Len(trips) |-> 3 * i]]>>

\* The heap a caller hands over: the trips, the Dates, and a config that
\* holds the last of the Dates as its evaluation date, if it has one.
CallerHeap(trips, dates, config) ==
    TripObjects(trips)
    \o [k \in 1..Len(dates) |-> DateObject(dates[k])]
    \o <<[kind |-> "Config", windowMonths |-> config.windowMonths,
          absenceLimit |-> config.absenceLimit,
          customDate |-> IF config.customDate = null THEN null
                         ELSE Some(3 * Len(trips) + 1 + Len(dates))]>>

NoConfig == [windowMonths |-> 12, absenceLimit |-> 180, customDate |-> null]

HeapTripLists == SeqsUpTo(AnalysisTrips, MaxTrips)

AddMonthsOnHeap ==
    /\ Idle
    /\ \E trips \in HeapTripLists, date \in WindowDays,
          months \in {0 - 12, 0 - 1, 0, 1, 13} :
          /\ call' = [op |-> "addMonthsOnHeap",
                      heap |-> CallerHeap(trips, <<date>>, NoConfig),
                      trips |-> 3 * Len(trips) + 1,
                      date |-> 3 * Len(trips) + 2, months |-> months]
          /\ ret' = addMonthsOnHeap(CallerHeap(trips, <<date>>, NoConfig),
                                    3 * Len(trips) + 2, months)
    /\ UNCHANGED <<tz, tripInput>>

CalculateDaysInWindowOnHeap ==
    /\ Idle
    /\ \E trips \in HeapTripLists, w \in Windows :
          /\ call' = [op |-> "calculateDaysInWindowOnHeap",
                      heap |-> CallerHeap(trips, <<w[1], w[2]>>, NoConfig),
                      trips |-> 3 * Len(trips) + 1,
                      windowStart |-> 3 * Len(trips) + 2,
                      windowEnd |-> 3 * Len(trips) + 3]
          /\ ret' = calculateDaysInWindowOnHeap(
                        CallerHeap(trips, <<w[1], w[2]>>, NoConfig),
                        3 * Len(trips) + 1, 3 * Len(trips) + 2, 3 * Len(trips) + 3)
    /\ UNCHANGED <<tz, tripInput>>

AnalyzeTripsOnHeap ==
    /\ Idle
    /\ \E trips \in HeapTripLists, config \in Configs :
          /\ call' = [op |-> "analyzeTripsOnHeap",
                      heap |-> CallerHeap(trips, <<>>,
                                          [windowMonths |-> config.windowMonths,
                                           absenceLimit |-> config.absenceLimit,
                                           customDate |-> null]),
                      trips |-> 3 * Len(trips) + 1,
                      config |-> 3 * Len(trips) + 2]
          /\ ret' = analyzeTripsOnHeap(
                        CallerHeap(trips, <<>>,
                                   [windowMonths |-> config.windowMonths,
                                    absenceLimit |-> config.absenceLimit,
                                    customDate |-> null]),
                        3 * Len(trips) + 1, 3 * Len(trips) + 2)
    /\ UNCHANGED <<tz, tripInput>>

HeapStatusConfigs ==
    [windowMonths : {6, 12}, absenceLimit : {90, 180},
     customDate : {null, Some(Day(2023, 12, 15)), Some(Day(2023, 1, 5))}]

\* The Dates of a config: its evaluation date, if it has one.
ConfigDates(config) == IF config.customDate = null THEN <<>> ELSE <<config.customDate[1]>>

CalculateStatusOnHeap ==
    /\ Idle
    /\ \E trips \in HeapTripLists, config \in HeapStatusConfigs, now \in Clock :
          /\ call' = [op |-> "calculateStatusOnHeap",
                      heap |-> CallerHeap(trips, ConfigDates(config), config),
                      trips |-> 3 * Len(trips) + 1,
                      config |-> 3 * Len(trips) + 2 + Len(ConfigDates(config)),
                      now |-> now]
          /\ ret' = calculateStatusOnHeap(
                        CallerHeap(trips, ConfigDates(config), config),
                        3 * Len(trips) + 1,
                        3 * Len(trips) + 2 + Len(ConfigDates(config)), now)
    /\ UNCHANGED <<tz, tripInput>>

\* Calls of the calculator on objects of the caller.
HeapNext ==
    \/ AddMonthsOnHeap
    \/ CalculateDaysInWindowOnHeap
    \/ AnalyzeTripsOnHeap
    \/ CalculateStatusOnHeap

HeapSpec == Init /\ [][HeapNext]_vars

(***************************************************************************)
(* C23: the calculation functions are free of side effects:                *)
(* calculateDaysInWindow, analyzeTrips and calculateStatus leave the trips *)
(* list they are given (its length, its order and every trip's start, end  *)
(* and days) and the config unchanged, addMonths leaves its date argument  *)
(* unchanged, and every result is a newly built value: the Date of         *)
(* addMonths, the array and the rows of analyzeTrips and the status of     *)
(* calculateStatus are objects that did not exist before the call.         *)
(***************************************************************************)
HeapOps ==
    {"addMonthsOnHeap", "calculateDaysInWindowOnHeap", "analyzeTripsOnHeap",
     "calculateStatusOnHeap"}

\* The objects that the call built.
IsNew(reference) == reference > Len(call.heap) /\ reference <= Len(ret.heap)

C23_SideEffectFree ==
    call.op \in HeapOps =>
        /\ Len(ret.heap) >= Len(call.heap)
        /\ SubSeq(ret.heap, 1, Len(call.heap)) = call.heap
        /\ TripValues(ret.heap, call.trips) = TripValues(call.heap, call.trips)
        /\ ret.heap[call.trips].items = call.heap[call.trips].items
        /\ call.op \in {"analyzeTripsOnHeap", "calculateStatusOnHeap"} =>
              ConfigValue(ret.heap, call.config) = ConfigValue(call.heap, call.config)
        /\ call.op = "addMonthsOnHeap" =>
              /\ ret.heap[call.date] = call.heap[call.date]
              /\ IsNew(ret.value)
        /\ call.op = "analyzeTripsOnHeap" =>
              /\ IsNew(ret.value)
              /\ \A i \in 1..Len(ret.heap[ret.value].items) :
                    IsNew(ret.heap[ret.value].items[i])
        /\ call.op = "calculateStatusOnHeap" /\ Len(call.heap[call.trips].items) > 0 =>
              /\ IsNew(ret.value)
              /\ IsNew(ret.heap[ret.value].windowStart)

\* analyzeTrips of two trips: two rows, each after the two Dates of its
\* addMonths, and the array.
C23_Witness ==
    /\ call.op = "analyzeTripsOnHeap"
    /\ Len(call.heap[call.trips].items) = 2
    /\ Len(ret.heap) = Len(call.heap) + 7
    /\ Len(ret.heap[ret.value].items) = 2
    /\ ret.heap[ret.heap[ret.value].items[2]].trip = call.heap[call.trips].items[2]

\* The status holds the evaluation date of the config itself.
C23_Reached_SharedTargetDate ==
    /\ call.op = "calculateStatusOnHeap"
    /\ Len(call.heap[call.trips].items) > 0
    /\ call.heap[call.config].customDate # null
    /\ ret.heap[ret.value].targetDate = call.heap[call.config].customDate[1]

C23_Reached_AddMonths ==
    /\ call.op = "addMonthsOnHeap"
    /\ call.months = 0 - 12
    /\ ret.heap[ret.value].time # call.heap[call.date].time

(***************************************************************************)
(* C24: for every trip list that parseTripsFromText returns and every      *)
(* window with windowStart <= windowEnd, calculateDaysInWindow returns a   *)
(* number >= 0, and adding one more line to the text (after the last line  *)
(* or before the first) never lowers the result for any window.            *)
(***************************************************************************)
ClaimWindowDays ==
    {Day(2023, 5, 1), Day(2023, 9, 1), Day(2023, 9, 17), Day(2023, 9, 30), Day(2023, 12, 31)}

ClaimWindows == {w \in ClaimWindowDays \X ClaimWindowDays : w[1] <= w[2]}

NoLowerInAnyWindow(trips, more) ==
    \A w \in ClaimWindows :
        calculateDaysInWindow(more, w[1], w[2]) >= calculateDaysInWindow(trips, w[1], w[2])

EndsFollowStarts(trips) == \A i \in 1..Len(trips) : trips[i].end >= trips[i].start

C24_WindowDaysNonNegative ==
    call.op = "parseTripsFromText" =>
        /\ \A w \in ClaimWindows : calculateDaysInWindow(ret, w[1], w[2]) >= 0
        /\ \A line \in LinePool :
              /\ NoLowerInAnyWindow(ret, parseTripsFromText(call.text \o "\n" \o line))
              /\ NoLowerInAnyWindow(ret, parseTripsFromText(line \o "\n" \o call.text))

\* Both hold of the texts none of whose rows ends before it starts.
C24_HoldsWhenEndsFollowStarts ==
    call.op = "parseTripsFromText" /\ EndsFollowStarts(ret) =>
        /\ \A w \in ClaimWindows : calculateDaysInWindow(ret, w[1], w[2]) >= 0
        /\ \A line \in LinePool :
              /\ EndsFollowStarts(parseTripsFromText(call.text \o "\n" \o line)) =>
                    NoLowerInAnyWindow(ret, parseTripsFromText(call.text \o "\n" \o line))
              /\ EndsFollowStarts(parseTripsFromText(line \o "\n" \o call.text)) =>
                    NoLowerInAnyWindow(ret, parseTripsFromText(line \o "\n" \o call.text))

\* A row from 20 to 15 September: minus four days in a window over both.
C24_Reached ==
    /\ call.op = "parseTripsFromText"
    /\ call.text = " 20.09.2023 , 15.09.2023 , back"
    /\ Len(ret) = 1
    /\ calculateDaysInWindow(ret, Day(2023, 9, 1), Day(2023, 9, 30)) = 0 - 4

(***************************************************************************)
(* C25: for every list of trips that each satisfy end >= start and that    *)
(* are pairwise non-overlapping (no calendar day belongs to two trips),    *)
(* and every window with windowStart <= windowEnd, calculateDaysInWindow   *)
(* returns at most (windowEnd - windowStart in days) + 1: never more than  *)
(* the number of calendar days of the inclusive window.                    *)
(***************************************************************************)
NonOverlapping(trips) ==
    \A i, j \in 1..Len(trips) :
        i # j => trips[i].end < trips[j].start \/ trips[j].end < trips[i].start

DaysOfWindow(windowStart, windowEnd) == (windowEnd - windowStart) \div MS_PER_DAY + 1

C25_AtMostWindowDays ==
    /\ call.op = "calculateDaysInWindow"
    /\ EndsFollowStarts(call.trips)
    /\ NonOverlapping(call.trips)
    /\ call.windowStart <= call.windowEnd
    => ret <= DaysOfWindow(call.windowStart, call.windowEnd)

\* Two trips apart, each with one day in the window of five days.
C25_Witness ==
    /\ call.op = "calculateDaysInWindow"
    /\ call.trips = <<MkTrip(Day(2022, 12, 25), Day(2023, 1, 1)),
                      MkTrip(Day(2023, 1, 5), Day(2023, 12, 31))>>
    /\ call.windowStart = Day(2023, 1, 1)
    /\ call.windowEnd = Day(2023, 1, 5)
    /\ ret = 2

\* A trip exactly on the window boundaries fills the window.
C25_Reached_Full ==
    /\ call.op = "calculateDaysInWindow"
    /\ call.trips = <<MkTrip(Day(2023, 1, 1), Day(2023, 1, 5))>>
    /\ call.windowStart = Day(2023, 1, 1) /\ call.windowEnd = Day(2023, 1, 5)
    /\ ret = DaysOfWindow(call.windowStart, call.windowEnd)

\* Two trips over the same days count the days of the window twice.
C25_Reached_Overlapping ==
    /\ call.op = "calculateDaysInWindow"
    /\ EndsFollowStarts(call.trips)
    /\ ~NonOverlapping(call.trips)
    /\ call.windowStart <= call.windowEnd
    /\ ret > DaysOfWindow(call.windowStart, call.windowEnd)

(***************************************************************************)
(* C26: the rolling window slides forward monotonically: for all calendar  *)
(* dates d1 <= d2 and every integer m, addMonths(d1, m) <= addMonths(d2,   *)
(* m); hence a later evaluation date or trip end never has an earlier      *)
(* windowStart.  The date of the call is compared with the dates a number  *)
(* of days after it and before it: the next days, on which every longer    *)
(* distance rests, and days further off.                                   *)
(***************************************************************************)
DayGaps == {1, 2, 3, 17, 31, 366}

C26_Reached_Clamped ==
    /\ call.op = "addMonths"
    /\ call.date \in CalendarDates
    /\ addMonths(call.date - MS_PER_DAY, call.months) = ret

C26_Reached_OtherHost ==
    /\ call.op = "addMonths"
    /\ tz # 0
    /\ call.months < 0
    /\ ret < addMonths(call.date + MS_PER_DAY, call.months)

(***************************************************************************)
(* C27: formatDate and parseDate round-trip: for every legal calendar date *)
(* d with a year of four digits (1000..9999), formatDate(d) is the         *)
(* zero-padded text dd.mm.yyyy and parseDate(formatDate(d)) = d.           *)
(***************************************************************************)
IsCalendarDate(t) == t % MS_PER_DAY = 0

C27_FormatParseRoundTrip ==
    /\ call.op = "formatDate"
    /\ IsCalendarDate(call.date)
    /\ CalendarOf(call.date).year \in 1000..9999
    => /\ Len(ret) = 10
       /\ AllDigits(SubSeq(ret, 1, 2)) /\ Ch(ret, 3) = "."
       /\ AllDigits(SubSeq(ret, 4, 5)) /\ Ch(ret, 6) = "."
       /\ AllDigits(SubSeq(ret, 7, 10))
       /\ Num(ret, 1, 2) = CalendarOf(call.date).day
       /\ Num(ret, 4, 5) = CalendarOf(call.date).month
       /\ Num(ret, 7, 10) = CalendarOf(call.date).year
       /\ parseDate(ret) = Some(call.date)

\* A day and a month of one digit.
C27_Witness ==
    /\ call.op = "formatDate"
    /\ call.date = Day(2023, 1, 5)
    /\ ret = "05.01.2023"
    /\ parseDate(ret) = Some(Day(2023, 1, 5))

C27_Reached_LastDay ==
    /\ call.op = "formatDate"
    /\ call.date = Day(9999, 12, 31)
    /\ ret = "31.12.9999"

\* Outside the years of four digits the text does not parse.
C27_Reached_ShortYear ==
    /\ call.op = "formatDate"
    /\ call.date = Day(999, 12, 31)
    /\ ret = "31.12.999"
    /\ parseDate(ret) = null

\* A Date with a time of day comes back as its midnight.
C27_Reached_TimeOfDay ==
    /\ call.op = "formatDate"
    /\ ~IsCalendarDate(call.date)
    /\ parseDate(ret) = Some(Day(2023, 1, 5))

(***************************************************************************)
(* The TripInput component (web/src/app/components/trip-input).            *)
(*                                                                         *)
(* tripInput is null while no component exists, and otherwise the record   *)
(* of the component's signals: mode, tableRows, tripText, and whether      *)
(* ngOnInit has run.  tripText is the model that App binds to its own      *)
(* tripText signal: a text given to textChanged is the text of both.       *)
(* Rows are counted from 1 here and from 0 in the code.                    *)
(***************************************************************************)
MaxRows == 2

emptyRow == [startStr |-> "", endStr |-> "", notes |-> ""]

\* date.toISOString().slice(0, 10): the year has four digits from 0 to 9999
\* and a sign and six digits outside.
toISOStringDate(date) ==
    LET year == getUTCFullYear(date)
        yearText == IF year < 0 THEN "-" \o padStart(NumberToString(0 - year), 6)
                    ELSE IF year > 9999 THEN "+" \o padStart(NumberToString(year), 6)
                    ELSE padStart(NumberToString(year), 4)
        text == yearText \o "-" \o padStart(NumberToString(getUTCMonth(date) + 1), 2)
                \o "-" \o padStart(NumberToString(getUTCDate(date)), 2) \o "T"
    IN  SubSeq(text, 1, 10)

tripToRow(trip) ==
    [startStr |-> toISOStringDate(trip.start),
     endStr |-> toISOStringDate(trip.end),
     notes |-> IF "notes" \in DOMAIN trip THEN trip.notes ELSE ""]

\* trips.map(tripToRow)
tripsToRows(trips) == [k \in 1..Len(trips) |-> tripToRow(trips[k])]

\* trips.length > 0 ? trips.map(tripToRow) : [emptyRow()]
tripsToRowsOrEmptyRow(trips) ==
    IF Len(trips) > 0 THEN tripsToRows(trips) ELSE <<emptyRow>>

\* A piece of a destructured split, "undefined" in a template when missing.
PieceText(pieces, k) == IF k <= Len(pieces) THEN pieces[k] ELSE "undefined"

inputToDisplay(str) ==
    IF Len(str) = 0 THEN ""
    ELSE LET pieces == SplitFrom(str, 1, 1, {"-"})
         IN  PieceText(pieces, 3) \o "." \o PieceText(pieces, 2) \o "."
             \o PieceText(pieces, 1)

\* r.startStr && r.endStr
IsValidRow(row) == Len(row.startStr) > 0 /\ Len(row.endStr) > 0

\* The lines of serializeRows, from row k of the valid rows on.
RECURSIVE serializeLinesFrom(_, _, _)
serializeLinesFrom(validRows, k, hasNotes) ==
    IF k > Len(validRows) THEN ""
    ELSE LET row == validRows[k]
             start == inputToDisplay(row.startStr)
             end == inputToDisplay(row.endStr)
         IN  "\n" \o start \o "," \o end
             \o (IF hasNotes THEN "," \o row.notes ELSE "")
             \o serializeLinesFrom(validRows, k + 1, hasNotes)

serializeRows(tableRows) ==
    LET validRows == SelectSeq(tableRows, IsValidRow)
    IN  IF Len(validRows) = 0 THEN ""
        ELSE LET hasNotes == \E k \in 1..Len(validRows) :
                                 Len(trim(validRows[k].notes)) > 0
                 header == IF hasNotes THEN "Start,End,Notes" ELSE "Start,End"
             IN  header \o serializeLinesFrom(validRows, 1, hasNotes)

\* App.parsedResult and App.trips: the trips input of the component.
AppTrips(text) ==
    IF Len(trim(text)) = 0 THEN <<>> ELSE parseTripsFromText(text)

\* The trip at a position of the trips input, or null.
TripAt(trips, tripIdx) == IF tripIdx <= Len(trips) THEN trips[tripIdx] ELSE null

getTripForRow(tableRows, trips, rowIndex) ==
    IF rowIndex > Len(tableRows) THEN null
    ELSE IF ~IsValidRow(tableRows[rowIndex]) THEN null
    ELSE TripAt(trips, 1 + Cardinality({i \in 1..(rowIndex - 1) :
                                           IsValidRow(tableRows[i])}))

EXAMPLE_DATA ==
    "Start,End,Notes\n"
    \o "25.05.2023,10.08.2023,Summer holiday\n"
    \o "15.09.2023,20.09.2023,Business trip\n"
    \o "24.12.2023,04.01.2024,Christmas & New Year\n"
    \o "05.01.2024,15.01.2024,Winter break\n"
    \o "30.03.2024,03.04.2024,Easter weekend\n"
    \o "07.04.2024,20.04.2024,Spring holiday\n"
    \o "10.05.2024,12.05.2024,Long weekend\n"
    \o "24.05.2024,01.06.2024,Lisbon conference\n"
    \o "10.06.2024,16.06.2024,Family visit\n"
    \o "05.07.2024,08.08.2024,Summer vacation 2024\n"
    \o "14.08.2024,20.08.2024,Late summer trip\n"
    \o "14.12.2024,24.12.2024,Pre-Christmas\n"
    \o "26.12.2024,05.01.2025,New Year break\n"
    \o "17.01.2025,20.01.2025,Weekend away\n"
    \o "06.04.2025,28.04.2025,Easter & spring\n"
    \o "16.06.2025,08.08.2025,Summer 2025\n"
    \o "06.09.2025,13.09.2025,Autumn break\n"
    \o "12.10.2025,30.10.2025,Autumn trip"

\* The state of a component just constructed.
Constructed(storedMode, text) ==
    [mode |-> storedMode, tableRows |-> <<emptyRow>>, tripText |-> text,
     initialized |-> FALSE]

ngOnInit(c) ==
    LET trips == parseTripsFromText(c.tripText)
    IN  [c EXCEPT !.initialized = TRUE,
                  !.tableRows = IF c.mode = "table" /\ Len(trips) > 0
                                THEN tripsToRows(trips) ELSE @]

setMode(c, newMode) ==
    IF newMode = c.mode THEN c
    ELSE IF newMode = "table"
         THEN [c EXCEPT !.tableRows =
                            tripsToRowsOrEmptyRow(parseTripsFromText(c.tripText)),
                        !.mode = newMode]
         ELSE IF c.mode = "table"
              THEN [c EXCEPT !.tripText = serializeRows(c.tableRows),
                             !.mode = newMode]
              ELSE [c EXCEPT !.mode = newMode]

loadExample(c) ==
    LET trips == parseTripsFromText(EXAMPLE_DATA)
    IN  [c EXCEPT !.tripText = EXAMPLE_DATA,
                  !.tableRows = IF c.mode = "table" THEN tripsToRows(trips) ELSE @,
                  !.mode = IF c.mode = "file" THEN "text" ELSE @]

clear(c) == [c EXCEPT !.tableRows = <<emptyRow>>, !.tripText = ""]

\* The parent takes the text; tripText follows the parent's signal.
onTextInput(c, value) == [c EXCEPT !.tripText = value]

\* emitFromTable after the rows were replaced.
emitFromTable(c, rows) ==
    [c EXCEPT !.tableRows = rows, !.tripText = serializeRows(rows)]

addRow(c) == [c EXCEPT !.tableRows = Append(@, emptyRow)]

\* rows.filter((_, i) => i !== index)
RowsWithout(rows, index) ==
    IF index > Len(rows) THEN rows
    ELSE [k \in 1..(Len(rows) - 1) |-> IF k < index THEN rows[k] ELSE rows[k + 1]]

\* The update of deleteRow without the row put in place of the last one.
deletedRowsLeavingNone(rows, index) == RowsWithout(rows, index)

\* The update of deleteRow.
deletedRows(rows, index) ==
    LET updated == RowsWithout(rows, index)
    IN  IF Len(updated) > 0 THEN updated ELSE <<emptyRow>>

deleteRow(c, index) == emitFromTable(c, deletedRows(c.tableRows, index))

onDateChange(c, index, field, value) ==
    emitFromTable(c, [c.tableRows EXCEPT ![index] =
                         IF field = "startStr" THEN [@ EXCEPT !.startStr = value]
                         ELSE [@ EXCEPT !.endStr = value]])

onNotesChange(c, index, value) ==
    emitFromTable(c, [c.tableRows EXCEPT ![index].notes = value])

\* reader.onload of readFile, with the text of the file.
readFileOnLoad(c, text) ==
    [c EXCEPT !.tableRows = tripsToRowsOrEmptyRow(parseTripsFromText(text)),
              !.tripText = text,
              !.mode = "table"]

\* The values of an <input type="date">, and of the notes field.
DateInputs == {"", "2023-05-25", "2023-09-20"}

NotesInputs == {"", "Rome"}

\* The rows that the handlers of this model are called on.
RowIndexes == {1, 2}

Modes == {"table", "text", "file"}

\* Texts that App restores from localStorage.
StoredTexts == {"", "Start,End\n25.05.2023,10.08.2023"}

\* Texts typed into the textarea.
TypedTexts == {"invalid,date", "20.09.2023,25.05.2023"}

\* Texts of loaded files.
FileTexts ==
    {"invalid,date",
     "Start,End,Notes\n25.05.2023,20.09.2023,Oslo\n25.05.2023,25.05.2023,Rome"}

Ready == tripInput.initialized

NgOnInit ==
    /\ ~tripInput.initialized
    /\ call' = [op |-> "ngOnInit"]
    /\ ret' = null
    /\ tripInput' = ngOnInit(tripInput)
    /\ UNCHANGED tz

SetMode ==
    /\ Ready
    /\ \E newMode \in Modes :
          /\ call' = [op |-> "setMode", newMode |-> newMode, mode |-> tripInput.mode]
          /\ tripInput' = setMode(tripInput, newMode)
    /\ ret' = null
    /\ UNCHANGED tz

LoadExample ==
    /\ Ready
    /\ call' = [op |-> "loadExample"]
    /\ ret' = null
    /\ tripInput' = loadExample(tripInput)
    /\ UNCHANGED tz

Clear ==
    /\ Ready
    /\ call' = [op |-> "clear"]
    /\ ret' = null
    /\ tripInput' = clear(tripInput)
    /\ UNCHANGED tz

OnTextInput ==
    /\ Ready
    /\ tripInput.mode = "text"
    /\ \E value \in TypedTexts :
          /\ tripInput' = onTextInput(tripInput, value)
    /\ call' = [op |-> "onTextInput"]
    /\ ret' = null
    /\ UNCHANGED tz

\* The table is shown in table mode only.  The number of rows is unbounded
\* in the code: rows are added here up to MaxRows, and the rows of a table
\* of at most MaxRows rows are the ones edited and deleted.
Editable ==
    /\ tripInput.initialized
    /\ tripInput.mode = "table"
    /\ Len(tripInput.tableRows) <= MaxRows

AddRow ==
    /\ Editable
    /\ Len(tripInput.tableRows) < MaxRows
    /\ call' = [op |-> "addRow"]
    /\ ret' = null
    /\ tripInput' = addRow(tripInput)
    /\ UNCHANGED tz

DeleteRow ==
    /\ Editable
    /\ \E index \in RowIndexes :
          /\ index <= Len(tripInput.tableRows)
          /\ tripInput' = deleteRow(tripInput, index)
    /\ call' = [op |-> "deleteRow"]
    /\ ret' = null
    /\ UNCHANGED tz

OnDateChange ==
    /\ Editable
    /\ \E index \in RowIndexes, field \in {"startStr", "endStr"}, value \in DateInputs :
          /\ index <= Len(tripInput.tableRows)
          /\ tripInput' = onDateChange(tripInput, index, field, value)
    /\ call' = [op |-> "onDateChange"]
    /\ ret' = null
    /\ UNCHANGED tz

OnNotesChange ==
    /\ Editable
    /\ \E index \in RowIndexes, value \in NotesInputs :
          /\ index <= Len(tripInput.tableRows)
          /\ tripInput' = onNotesChange(tripInput, index, value)
    /\ call' = [op |-> "onNotesChange"]
    /\ ret' = null
    /\ UNCHANGED tz

\* A file is chosen or dropped in file mode; its load completes.
ReadFile ==
    /\ Ready
    /\ tripInput.mode = "file"
    /\ \E text \in FileTexts :
          /\ tripInput' = readFileOnLoad(tripInput, text)
    /\ call' = [op |-> "readFile"]
    /\ ret' = null
    /\ UNCHANGED tz

\* The template asks for the trip of a row of the table.
GetTripForRow ==
    /\ Ready
    /\ tripInput.mode = "table"
    /\ \E rowIndex \in RowIndexes :
          /\ rowIndex <= Len(tripInput.tableRows)
          /\ call' = [op |-> "getTripForRow", rowIndex |-> rowIndex]
          /\ ret' = getTripForRow(tripInput.tableRows, AppTrips(tripInput.tripText),
                                  rowIndex)
    /\ UNCHANGED <<tz, tripInput>>

\* The component reads no time zone: toISOString and the parser are UTC.
ComponentInit ==
    /\ tz = 0
    /\ call = [op |-> "none"]
    /\ ret = null
    /\ tripInput \in {Constructed(storedMode, text) :
                         storedMode \in Modes, text \in StoredTexts}

ComponentNext ==
    \/ NgOnInit
    \/ SetMode
    \/ LoadExample
    \/ Clear
    \/ OnTextInput
    \/ AddRow
    \/ DeleteRow
    \/ OnDateChange
    \/ OnNotesChange
    \/ ReadFile
    \/ GetTripForRow

ComponentSpec == ComponentInit /\ [][ComponentNext]_vars

(***************************************************************************)
(* C28: in the TripInput component, after any sequence of ngOnInit,        *)
(* addRow, deleteRow, onDateChange, onNotesChange, clear, loadExample,     *)
(* setMode and completed file loads, tableRows contains at least one row:  *)
(* deleting the last row, or loading text with no valid trip, leaves a     *)
(* single empty row.                                                       *)
(***************************************************************************)
C28_AtLeastOneRow ==
    /\ Len(tripInput.tableRows) >= 1
    /\ call.op = "readFile" /\ parseTripsFromText(tripInput.tripText) = <<>>
       => tripInput.tableRows = <<emptyRow>>
    /\ call.op = "setMode" /\ call.newMode = "table" /\ call.mode # "table"
       /\ parseTripsFromText(tripInput.tripText) = <<>>
       => tripInput.tableRows = <<emptyRow>>

\* The only row was deleted: one empty row is left.
C28_Witness ==
    /\ call.op = "deleteRow"
    /\ tripInput.tableRows = <<emptyRow>>
    /\ tripInput.tripText = ""

\* A file with no valid trip was loaded.
C28_Reached_FileWithoutTrips ==
    /\ call.op = "readFile"
    /\ tripInput.tripText = "invalid,date"
    /\ tripInput.mode = "table"
    /\ tripInput.tableRows = <<emptyRow>>

\* Text with no valid trip was typed, then the table was opened.
C28_Reached_TextWithoutTrips ==
    /\ call.op = "setMode"
    /\ call.newMode = "table"
    /\ tripInput.tripText = "invalid,date"
    /\ tripInput.tableRows = <<emptyRow>>

C28_Reached_Example ==
    /\ call.op = "loadExample"
    /\ tripInput.mode = "table"
    /\ Len(tripInput.tableRows) = 18

C28_Reached_TwoRows ==
    /\ call.op = "deleteRow"
    /\ Len(tripInput.tableRows) = 1
    /\ IsValidRow(tripInput.tableRows[1])

(***************************************************************************)
(* C29: in the TripInput component, leaving table mode and returning to it *)
(* with no edit in between (setMode('text') then setMode('table'))         *)
(* preserves the complete rows: the table afterwards holds exactly the     *)
(* rows that had both a start and an end date before, each with the same   *)
(* start date, end date and notes.                                         *)
(***************************************************************************)
Occurrences(rows, row) == Cardinality({k \in 1..Len(rows) : rows[k] = row})

\* The same rows, each as many times, in any order.
SameRows(a, b) ==
    /\ Len(a) = Len(b)
    /\ \A k \in 1..Len(a) : Occurrences(a, a[k]) = Occurrences(b, a[k])

CompleteRows(rows) == SelectSeq(rows, IsValidRow)

DatesOf(rows) == [k \in 1..Len(rows) |-> <<rows[k].startStr, rows[k].endStr>>]

\* The component has just left table mode, and returns to it in this step.
LeftTableAndReturns ==
    /\ call.op = "setMode" /\ call.mode = "table" /\ call.newMode = "text"
    /\ call'.op = "setMode" /\ call'.newMode = "table"

C29_RoundTripKeepsRows ==
    [][LeftTableAndReturns =>
          SameRows(CompleteRows(tripInput'.tableRows), CompleteRows(tripInput.tableRows))
      ]_vars

\* The dates of the complete rows come back, in some order.
C29_RoundTripKeepsDates ==
    [][LeftTableAndReturns =>
          SameRows(DatesOf(CompleteRows(tripInput'.tableRows)),
                   DatesOf(CompleteRows(tripInput.tableRows)))
      ]_vars

\* The rows come back with empty notes.
C29_RoundTripEmptiesNotes ==
    [][LeftTableAndReturns =>
          \A k \in 1..Len(tripInput'.tableRows) : tripInput'.tableRows[k].notes = ""
      ]_vars

\* A table with notes was left for the text.
C29_Reached_LeftWithNotes ==
    /\ call.op = "setMode" /\ call.mode = "table" /\ call.newMode = "text"
    /\ tripInput.tableRows =
          <<[startStr |-> "2023-05-25", endStr |-> "2023-09-20", notes |-> "Rome"]>>
    /\ tripInput.tripText = "Start,End,Notes\n25.05.2023,20.09.2023,Rome"

\* Two rows, the later end first, were left for the text.
C29_Reached_LeftUnordered ==
    /\ call.op = "setMode" /\ call.mode = "table" /\ call.newMode = "text"
    /\ tripInput.tableRows =
          <<[startStr |-> "2023-05-25", endStr |-> "2023-09-20", notes |-> ""],
            [startStr |-> "2023-05-25", endStr |-> "2023-05-25", notes |-> ""]>>
    /\ tripInput.tripText = "Start,End\n25.05.2023,20.09.2023\n25.05.2023,25.05.2023"

(***************************************************************************)
(* C30: in the TripInput component, when the parent's trips list is the    *)
(* parse of the text serialized from the table, getTripForRow(i) returns   *)
(* for every row i that has both a start and an end date the trip whose    *)
(* start and end dates equal that row's dates, and null for every          *)
(* incomplete row, whatever order the rows were entered in.                *)
(***************************************************************************)
\* new Date(str + 'T00:00:00Z') of a date input value YYYY-MM-DD.
InputDate(str) ==
    Day(ToNumber(SubSeq(str, 1, 4)), ToNumber(SubSeq(str, 6, 7)),
        ToNumber(SubSeq(str, 9, 10)))

\* The trips input is the parse of the text serialized from the table.
TripsAreParseOfTable == tripInput.tripText = serializeRows(tripInput.tableRows)

RowOfCall == tripInput.tableRows[call.rowIndex]

C30_TripOfRow ==
    call.op = "getTripForRow" /\ TripsAreParseOfTable =>
       IF IsValidRow(RowOfCall)
       THEN /\ ret # null
            /\ ret.start = InputDate(RowOfCall.startStr)
            /\ ret.end = InputDate(RowOfCall.endStr)
       ELSE ret = null

\* Rows entered in the order of their end dates get their own trips.
EndsInOrder(rows) ==
    \A k \in 1..(Len(rows) - 1) :
        InputDate(rows[k].endStr) <= InputDate(rows[k + 1].endStr)

C30_TripOfRowWhenEndsInOrder ==
    /\ call.op = "getTripForRow"
    /\ TripsAreParseOfTable
    /\ EndsInOrder(CompleteRows(tripInput.tableRows))
    => IF IsValidRow(RowOfCall)
       THEN /\ ret # null
            /\ ret.start = InputDate(RowOfCall.startStr)
            /\ ret.end = InputDate(RowOfCall.endStr)
       ELSE ret = null

\* An incomplete row has no trip.
C30_NullForIncompleteRow ==
    call.op = "getTripForRow" /\ ~IsValidRow(RowOfCall) => ret = null

\* The second row, after an incomplete first row, gets the only trip.
C30_Reached_AfterIncompleteRow ==
    /\ call.op = "getTripForRow"
    /\ call.rowIndex = 2
    /\ TripsAreParseOfTable
    /\ ~IsValidRow(tripInput.tableRows[1])
    /\ ret = MkTrip(Day(2023, 5, 25), Day(2023, 9, 20))

\* The first row ends after the second: it gets the trip of the second.
C30_Reached_OtherTrip ==
    /\ call.op = "getTripForRow"
    /\ call.rowIndex = 1
    /\ TripsAreParseOfTable
    /\ tripInput.tableRows[1].startStr = "2023-05-25"
    /\ tripInput.tableRows[1].endStr = "2023-09-20"
    /\ ret = MkTrip(Day(2023, 5, 25), Day(2023, 5, 25))

====
